---- MODULE Spec2Model ----
(***************************************************************************)
(* Model of the rultra64 instruction-execution core: the register file     *)
(* (registers.rs), the instruction handlers and the dispatcher (cpu.rs)    *)
(* and the memory-management unit (mmu.rs, rdram.rs).                      *)
(*                                                                         *)
(* Machine integers are kept at their true width.  A k-byte integer is the *)
(* sequence of its k bytes, most significant first (what to_be_bytes()     *)
(* yields): an i64/u64 is a sequence of 8 bytes, an i32/u32 of 4, an       *)
(* i16/u16 of 2.  Signedness is not part of the value: it is in the        *)
(* operators that read it (sign/zero extension, signed/unsigned compare).  *)
(***************************************************************************)
EXTENDS Integers, Sequences, FiniteSets, TLC

\* cpu and mmu are the Emulator's two fields.  outcome is what the last
\* operation returned (or the panic that ended it), last names that
\* operation, its arguments and the CPU it started from, calls counts the
\* operations made so far, fetched lists the steps taken so far and history
\* the calls made so far that reach memory.
VARIABLES cpu, mmu, outcome, last, calls, fetched, history

vars == <<cpu, mmu, outcome, last, calls, fetched, history>>

(***************************************************************************)
(* Fixed-width integer arithmetic on byte sequences.                       *)
(***************************************************************************)

\* The k-byte zero.
Zero(k) == [i \in 1..k |-> 0]

\* The k-byte value of a small natural n < 2^16.
Small(n, k) == [i \in 1..k |-> IF i = k THEN n % 256 ELSE IF i = k - 1 THEN (n \div 256) % 256 ELSE 0]

\* A 64-bit value written as four 16-bit groups, most significant first.
Q(a, b, c, d) == <<a \div 256, a % 256, b \div 256, b % 256, c \div 256, c % 256, d \div 256, d % 256>>

\* A 32-bit value written as two 16-bit groups.
D(a, b) == <<a \div 256, a % 256, b \div 256, b % 256>>

\* A 16-bit value.
H(a) == <<a \div 256, a % 256>>

\* Bit k of a byte.
Bit(x, k) == (x \div (2 ^ k)) % 2

ByteAnd(x, y) ==
    LET f[k \in 0..8] == IF k = 8 THEN 0 ELSE Bit(x, k) * Bit(y, k) * (2 ^ k) + f[k + 1]
    IN f[0]

ByteOr(x, y) == x + y - ByteAnd(x, y)

ByteXor(x, y) == x + y - 2 * ByteAnd(x, y)

\* Rust's &, |, ^ and ! on integers of equal width.
WAnd(a, b) == [i \in 1..Len(a) |-> ByteAnd(a[i], b[i])]

WOr(a, b) == [i \in 1..Len(a) |-> ByteOr(a[i], b[i])]

WXor(a, b) == [i \in 1..Len(a) |-> ByteXor(a[i], b[i])]

WNot(a) == [i \in 1..Len(a) |-> 255 - a[i]]

\* wrapping_add on integers of equal width: the sum modulo 2^(8*Len), as a
\* tuple (\o <<>> leaves the sequence as it is and has its bytes computed once).
WAdd(a, b) ==
    LET n == Len(a)
        c[i \in 1..(n + 1)] == IF i = n + 1 THEN 0 ELSE (a[i] + b[i] + c[i + 1]) \div 256
    IN [i \in 1..n |-> (a[i] + b[i] + c[i + 1]) % 256] \o <<>>

WNeg(a) == WAdd(WNot(a), Small(1, Len(a)))

\* wrapping_sub on integers of equal width.
WSub(a, b) == WAdd(a, WNeg(b))

\* The sign bit of a two's complement value.
IsNeg(a) == a[1] >= 128

\* `as` from a signed type to a wider type: sign extension to k bytes.
SignExtend(a, k) ==
    [i \in 1..k |-> IF i <= k - Len(a) THEN (IF IsNeg(a) THEN 255 ELSE 0) ELSE a[i - (k - Len(a))]]

\* `as` from an unsigned type to a wider type: zero extension to k bytes.
ZeroExtend(a, k) ==
    [i \in 1..k |-> IF i <= k - Len(a) THEN 0 ELSE a[i - (k - Len(a))]]

\* `as` to a narrower type: the low k bytes.
Truncate(a, k) == [i \in 1..k |-> a[Len(a) - k + i]]

\* Unsigned a < b on integers of equal width.
ULt(a, b) ==
    LET lt[i \in 1..(Len(a) + 1)] ==
            IF i > Len(a) THEN FALSE ELSE IF a[i] # b[i] THEN a[i] < b[i] ELSE lt[i + 1]
    IN lt[1]

\* Signed a < b on integers of equal width.
SLt(a, b) == IF IsNeg(a) # IsNeg(b) THEN IsNeg(a) ELSE ULt(a, b)

\* a << n bits (bits shifted out are lost), n < 8: Rust's << on the type of a.
ShlBits(a, n) ==
    LET k == Len(a)
    IN [i \in 1..k |-> ((a[i] * (2 ^ n)) % 256) + (IF i < k THEN a[i + 1] \div (2 ^ (8 - n)) ELSE 0)]

\* checked_add on signed integers of equal width: None on overflow, that is
\* when both operands have the sign the wrapped sum does not have.
checked_add(a, b) ==
    LET r == WAdd(a, b)
    IN IF IsNeg(a) = IsNeg(b) /\ IsNeg(r) # IsNeg(a) THEN [some |-> FALSE] ELSE [some |-> TRUE, val |-> r]

\* checked_sub on signed integers of equal width.
checked_sub(a, b) ==
    LET r == WSub(a, b)
    IN IF IsNeg(a) # IsNeg(b) /\ IsNeg(r) # IsNeg(a) THEN [some |-> FALSE] ELSE [some |-> TRUE, val |-> r]

\* Rust's wrapping * on integers of equal width: the product modulo 2^(8*Len).
WMul(a, b) ==
    LET n == Len(a)
        col(k) == LET s[i \in 0..(k + 1)] == IF i = k + 1 THEN 0 ELSE a[n - i] * b[n - (k - i)] + s[i + 1]
                  IN s[0]
        t[k \in (0 - 1)..(n - 1)] == IF k = 0 - 1 THEN 0 ELSE col(k) + (t[k - 1] \div 256)
    IN [i \in 1..n |-> t[n - i] % 256]

\* The k most significant bytes of a.
High(a, k) == [i \in 1..k |-> a[i]]

\* a << n on the type of a, 0 <= n < 8 * Len(a).
ShlN(a, n) ==
    LET k == Len(a)
        q == n \div 8
        moved == [i \in 1..k |-> IF i + q <= k THEN a[i + q] ELSE 0]
    IN ShlBits(moved, n % 8)

\* a >> n on a signed type (the sign bit is shifted in), 0 <= n < 8 * Len(a).
SarN(a, n) ==
    LET k == Len(a)
        q == n \div 8
        r == n % 8
        fill == IF IsNeg(a) THEN 255 ELSE 0
        moved == [i \in 0..k |-> IF i - q >= 1 THEN a[i - q] ELSE fill]
    IN [i \in 1..k |-> (moved[i] \div (2 ^ r)) + (moved[i - 1] % (2 ^ r)) * (2 ^ (8 - r))]

\* (a << 1) | low on the type of a, low being 0 or 1, as a tuple.
ShlIn(a, low) ==
    LET k == Len(a)
    IN [i \in 1..k |-> ((a[i] * 2) % 256) + (IF i < k THEN a[i + 1] \div 128 ELSE low)] \o <<>>

\* The element of a set of one element.  {f(x) : x \in {e}} has f applied
\* to the value of e, computed once.
The(S) == CHOOSE x \in S : TRUE

\* One step of the division of a by b bit by bit: the remainder p.r taking
\* in the next bit of a, and the quotient p.q the bit that says whether b
\* fits.
DivStep(p, low, b) ==
    The({ IF ULt(r2, b)
          THEN [q |-> ShlIn(p.q, 0), r |-> r2]
          ELSE [q |-> ShlIn(p.q, 1), r |-> WSub(r2, b)] : r2 \in {ShlIn(p.r, low)} })

\* The eight steps that take in the bits of one byte of a, the most
\* significant first.
DivByte(p, byte, b) ==
    LET st[n \in 0..8] ==
            IF n = 0 THEN p ELSE The({DivStep(s, Bit(byte, 8 - n), b) : s \in {st[n - 1]}})
    IN st[8]

\* a / b and a % b on unsigned integers of equal width, b not 0: division
\* from the most significant bit of a, the remainder kept one byte wider
\* than the operands.
UDivMod(a, b) ==
    LET k == Len(a)
        st[i \in 0..k] ==
            IF i = 0 THEN [q |-> Zero(k), r |-> Zero(k + 1)]
            ELSE The({DivByte(p, a[i], <<0>> \o b) : p \in {st[i - 1]}})
    IN [q |-> st[k].q, r |-> Truncate(st[k].r, k)]

\* The magnitude of a signed integer as an unsigned one of the same width.
Magnitude(a) == IF IsNeg(a) THEN WNeg(a) ELSE a

\* wrapping_div on signed integers, b not 0: the quotient rounded towards
\* zero; MIN / -1 wraps to MIN.
SDiv(a, b) ==
    LET q == UDivMod(Magnitude(a), Magnitude(b)).q
    IN IF IsNeg(a) # IsNeg(b) THEN WNeg(q) ELSE q

\* wrapping_rem_euclid on signed integers, b not 0: the remainder that is
\* not negative.
SRemEuclid(a, b) ==
    LET r == UDivMod(Magnitude(a), Magnitude(b)).r
    IN IF IsNeg(a) /\ r # Zero(Len(a)) THEN WSub(Magnitude(b), r) ELSE r

(***************************************************************************)
(* registers.rs: the general-purpose register file.                        *)
(***************************************************************************)

CPU_REGISTER_NAMES ==
    << "zero", "at", "v0", "v1", "a0", "a1", "a2", "a3",
       "t0",   "t1", "t2", "t3", "t4", "t5", "t6", "t7",
       "s0",   "s1", "s2", "s3", "s4", "s5", "s6", "s7",
       "t8",   "t9", "k0", "k1", "gp", "sp", "s8", "ra" >>

\* The kind of box CPURegisters::new() puts in each slot.
RegisterKind == [i \in 0..31 |-> IF i = 0 THEN "Fixed" ELSE "Generic"]

\* Fixed::set with a store in it.
Fixed_set_stores(cur, val) == val

\* Fixed::set: the write is discarded.
Fixed_set(cur, val) == cur

\* Generic::set.
Generic_set(cur, val) == val

CPURegisters_new ==
    [ registers            |-> [i \in 0..31 |-> Zero(8)],
      program_counter      |-> Q(0, 0, \hBFC0, \h0000),
      next_program_counter |-> Q(0, 0, \hBFC0, \h0004),
      hi                   |-> Zero(8),
      lo                   |-> Zero(8),
      load_link            |-> FALSE ]

\* Zero-based position of a name in CPU_REGISTER_NAMES.
find_index(name) == (CHOOSE i \in 1..32 : CPU_REGISTER_NAMES[i] = name) - 1

get_by_number(r, index) == r.registers[index]

get_by_name(r, name) == r.registers[find_index(name)]

set_by_number(r, index, val) ==
    [r EXCEPT !.registers[index] =
        IF RegisterKind[index] = "Fixed" THEN Fixed_set(@, val) ELSE Generic_set(@, val)]

set_by_name(r, name, val) ==
    [r EXCEPT !.registers[find_index(name)] =
        IF RegisterKind[find_index(name)] = "Fixed" THEN Fixed_set(@, val) ELSE Generic_set(@, val)]

get_program_counter(r) == r.program_counter

set_program_counter(r, val) == [r EXCEPT !.program_counter = val]

get_next_program_counter(r) == r.next_program_counter

set_next_program_counter(r, val) == [r EXCEPT !.next_program_counter = val]

increment_next_program_counter(r, val) ==
    [r EXCEPT !.next_program_counter = WAdd(@, val)]

set_hi(r, val) == [r EXCEPT !.hi = val]

set_lo(r, val) == [r EXCEPT !.lo = val]

CPURegisters_new_hle ==
    LET r1 == set_by_name(CPURegisters_new, "t3", Q(\hFFFF, \hFFFF, \hA400, \h0040))
        r2 == set_by_name(r1, "s4", Q(0, 0, 0, 1))
        r3 == set_by_name(r2, "s6", Q(0, 0, 0, \h3F))
        r4 == set_by_name(r3, "sp", Q(\hFFFF, \hFFFF, \hA400, \h1FF0))
        r5 == set_program_counter(r4, Q(0, 0, \h8000, \h1000))
    IN set_next_program_counter(r5, Q(0, 0, \h8000, \h1004))

(***************************************************************************)
(* registers.rs: coprocessor 0.  Each slot has the width of its field in   *)
(* struct CP0Registers.                                                    *)
(***************************************************************************)

CP0Width ==
    [i \in 0..31 |-> IF i \in {0, 1, 5, 6, 9, 11, 12, 13, 15, 16, 17, 18, 19, 26, 27, 28, 29} THEN 4 ELSE 8]

CP0Registers_new == [i \in 0..31 |-> Zero(CP0Width[i])]

CP0Registers_new_hle ==
    [CP0Registers_new EXCEPT ![1] = D(0, \h1F), ![12] = D(\h7040, \h0004),
                             ![15] = D(0, \h0B00), ![16] = D(\h0006, \hE463)]

(***************************************************************************)
(* cpu.rs: the CPU and its instruction handlers.  A handler is an operator *)
(* from the CPU (self) and its operands to the CPU it leaves; a handler    *)
(* that returns Result<i64, i64> yields [self, res].                       *)
(***************************************************************************)

CPU_new == [registers |-> CPURegisters_new, cp0 |-> CP0Registers_new]

CPU_new_hle == [registers |-> CPURegisters_new_hle, cp0 |-> CP0Registers_new_hle]

Ok(v) == [kind |-> "Ok", val |-> v]

Err(v) == [kind |-> "Err", val |-> v]

Unit == [kind |-> "unit"]

Panicked(kind) == [kind |-> "panic", val |-> kind]

\* self with register index written through set_by_number.
WriteReg(self, index, val) == [self EXCEPT !.registers = set_by_number(@, index, val)]

\* add with the write suppressed when the sum overflows.
add_suppressing(self, rd, rs, rt) ==
    LET s == Truncate(get_by_number(self.registers, rs), 4)
        t == Truncate(get_by_number(self.registers, rt), 4)
        result == SignExtend(WAdd(s, t), 8)
    IN IF checked_add(s, t).some
       THEN [self |-> WriteReg(self, rd, result), res |-> Ok(result)]
       ELSE [self |-> self, res |-> Err(result)]

add(self, rd, rs, rt) ==
    LET s == Truncate(get_by_number(self.registers, rs), 4)
        t == Truncate(get_by_number(self.registers, rt), 4)
        result == SignExtend(WAdd(s, t), 8)
        will_overflow == checked_add(s, t)
    IN [self |-> WriteReg(self, rd, result),
        res  |-> IF will_overflow.some THEN Ok(result) ELSE Err(result)]

addu(self, rd, rs, rt) ==
    LET s == Truncate(get_by_number(self.registers, rs), 4)
        t == Truncate(get_by_number(self.registers, rt), 4)
        result == ZeroExtend(WAdd(s, t), 8)
    IN WriteReg(self, rd, result)

addi(self, rt, rs, immediate) ==
    LET s == Truncate(get_by_number(self.registers, rs), 4)
        imm == SignExtend(immediate, 4)
        result == SignExtend(WAdd(s, imm), 8)
        will_overflow == checked_add(s, imm)
    IN [self |-> WriteReg(self, rt, result),
        res  |-> IF will_overflow.some THEN Ok(result) ELSE Err(result)]

addiu(self, rt, rs, immediate) ==
    LET s == Truncate(get_by_number(self.registers, rs), 4)
        imm == SignExtend(immediate, 4)
        result == ZeroExtend(WAdd(s, imm), 8)
    IN WriteReg(self, rt, result)

dadd(self, rd, rs, rt) ==
    LET s == get_by_number(self.registers, rs)
        t == get_by_number(self.registers, rt)
        result == WAdd(s, t)
        will_overflow == checked_add(s, t)
    IN [self |-> WriteReg(self, rd, result),
        res  |-> IF will_overflow.some THEN Ok(result) ELSE Err(result)]

daddu(self, rd, rs, rt) ==
    LET s == get_by_number(self.registers, rs)
        t == get_by_number(self.registers, rt)
    IN WriteReg(self, rd, WAdd(s, t))

daddi(self, rt, rs, immediate) ==
    LET s == get_by_number(self.registers, rs)
        imm == SignExtend(immediate, 8)
        result == WAdd(s, imm)
        will_overflow == checked_add(s, imm)
    IN [self |-> WriteReg(self, rt, result),
        res  |-> IF will_overflow.some THEN Ok(result) ELSE Err(result)]

daddiu(self, rt, rs, immediate) ==
    LET s == get_by_number(self.registers, rs)
        imm == ZeroExtend(immediate, 8)
    IN WriteReg(self, rt, WAdd(s, imm))

sub(self, rd, rs, rt) ==
    LET s == Truncate(get_by_number(self.registers, rs), 4)
        t == Truncate(get_by_number(self.registers, rt), 4)
        result == SignExtend(WSub(s, t), 8)
        will_overflow == checked_sub(s, t)
    IN [self |-> WriteReg(self, rd, result),
        res  |-> IF will_overflow.some THEN Ok(result) ELSE Err(result)]

subu(self, rd, rs, rt) ==
    LET s == Truncate(get_by_number(self.registers, rs), 4)
        t == Truncate(get_by_number(self.registers, rt), 4)
        result == ZeroExtend(WSub(s, t), 8)
    IN WriteReg(self, rd, result)

dsub(self, rd, rs, rt) ==
    LET s == get_by_number(self.registers, rs)
        t == get_by_number(self.registers, rt)
        result == WSub(s, t)
        will_overflow == checked_sub(s, t)
    IN [self |-> WriteReg(self, rd, result),
        res  |-> IF will_overflow.some THEN Ok(result) ELSE Err(result)]

dsubu(self, rd, rs, rt) ==
    LET s == get_by_number(self.registers, rs)
        t == get_by_number(self.registers, rt)
    IN WriteReg(self, rd, WSub(s, t))

mult(self, rs, rt) ==
    LET s == SignExtend(Truncate(get_by_number(self.registers, rs), 4), 8)
        t == SignExtend(Truncate(get_by_number(self.registers, rt), 4), 8)
        result == WMul(s, t)
        r1 == set_lo(self.registers, WAnd(result, Q(0, 0, \h00FF, \hFFFF)))
    IN [self EXCEPT !.registers = set_hi(r1, SignExtend(High(result, 4), 8))]

dmult(self, rs, rt) ==
    LET s == SignExtend(get_by_number(self.registers, rs), 16)
        t == SignExtend(get_by_number(self.registers, rt), 16)
        result == WMul(s, t)
        mask == ZeroExtend(Q(\h0000, \hFFFF, \hFFFF, \hFFFF), 16)
        r1 == set_lo(self.registers, Truncate(WAnd(result, mask), 8))
    IN [self EXCEPT !.registers = set_hi(r1, High(result, 8))]

\* multu and dmultu multiply with `*`, which panics on overflow in a build
\* with overflow checks and wraps in one without: overflow says which.
multu(self, rs, rt) ==
    LET s == ZeroExtend(get_by_number(self.registers, rs), 16)
        t == ZeroExtend(get_by_number(self.registers, rt), 16)
        full == WMul(s, t)
        result == Truncate(full, 8)
        r1 == set_lo(self.registers, WAnd(result, Q(0, 0, \h00FF, \hFFFF)))
    IN [self |-> [self EXCEPT !.registers = set_hi(r1, ZeroExtend(High(result, 4), 8))],
        overflow |-> High(full, 8) # Zero(8)]

dmultu(self, rs, rt) ==
    LET s == ZeroExtend(SignExtend(get_by_number(self.registers, rs), 16), 32)
        t == ZeroExtend(SignExtend(get_by_number(self.registers, rt), 16), 32)
        full == WMul(s, t)
        result == Truncate(full, 16)
        mask == ZeroExtend(Q(\h0000, \hFFFF, \hFFFF, \hFFFF), 16)
        r1 == set_lo(self.registers, Truncate(WAnd(result, mask), 8))
    IN [self |-> [self EXCEPT !.registers = set_hi(r1, High(result, 8))],
        overflow |-> High(full, 16) # Zero(16)]

\* What a division leaves: LO and HI written, or the panic of wrapping_div
\* on a zero divisor, which comes before either is written.
Divided(self, t, lo, hi) ==
    IF t = Zero(Len(t))
    THEN [self |-> self, res |-> Panicked("divide_by_zero")]
    ELSE [self |-> [self EXCEPT !.registers = set_hi(set_lo(@, lo), hi)], res |-> Unit]

div(self, rs, rt) ==
    LET s == Truncate(get_by_number(self.registers, rs), 4)
        t == Truncate(get_by_number(self.registers, rt), 4)
    IN Divided(self, t, SignExtend(SDiv(s, t), 8), SignExtend(SRemEuclid(s, t), 8))

ddiv(self, rs, rt) ==
    LET s == get_by_number(self.registers, rs)
        t == get_by_number(self.registers, rt)
    IN Divided(self, t, SDiv(s, t), SRemEuclid(s, t))

divu(self, rs, rt) ==
    LET s == Truncate(get_by_number(self.registers, rs), 4)
        t == Truncate(get_by_number(self.registers, rt), 4)
    IN Divided(self, t, SignExtend(UDivMod(s, t).q, 8), SignExtend(UDivMod(s, t).r, 8))

ddivu(self, rs, rt) ==
    LET s == get_by_number(self.registers, rs)
        t == get_by_number(self.registers, rt)
    IN Divided(self, t, UDivMod(s, t).q, UDivMod(s, t).r)

and(self, rd, rs, rt) ==
    WriteReg(self, rd, WAnd(get_by_number(self.registers, rs), get_by_number(self.registers, rt)))

andi(self, rt, rs, immediate) ==
    LET s == get_by_number(self.registers, rs)
        imm == SignExtend(immediate, 8)
    IN WriteReg(self, rt, WAnd(s, imm))

or(self, rd, rs, rt) ==
    WriteReg(self, rd, WOr(get_by_number(self.registers, rs), get_by_number(self.registers, rt)))

ori(self, rt, rs, immediate) ==
    LET s == get_by_number(self.registers, rs)
        imm == SignExtend(immediate, 8)
    IN WriteReg(self, rt, WOr(s, imm))

xor(self, rd, rs, rt) ==
    WriteReg(self, rd, WXor(get_by_number(self.registers, rs), get_by_number(self.registers, rt)))

xori(self, rt, rs, immediate) ==
    LET s == get_by_number(self.registers, rs)
        imm == SignExtend(immediate, 8)
    IN WriteReg(self, rt, WXor(s, imm))

nor(self, rd, rs, rt) ==
    WriteReg(self, rd, WNot(WOr(get_by_number(self.registers, rs), get_by_number(self.registers, rt))))

\* 1 or 0 as an i64.
BoolWord(b) == IF b THEN Q(0, 0, 0, 1) ELSE Q(0, 0, 0, 0)

slt(self, rd, rs, rt) ==
    WriteReg(self, rd, BoolWord(SLt(get_by_number(self.registers, rs), get_by_number(self.registers, rt))))

sltu(self, rd, rs, rt) ==
    WriteReg(self, rd, BoolWord(ULt(get_by_number(self.registers, rs), get_by_number(self.registers, rt))))

slti(self, rt, rs, immediate) ==
    WriteReg(self, rt, BoolWord(SLt(get_by_number(self.registers, rs), SignExtend(immediate, 8))))

sltiu(self, rt, rs, immediate) ==
    WriteReg(self, rt, BoolWord(ULt(get_by_number(self.registers, rs), ZeroExtend(immediate, 8))))

lui(self, rt, immediate) ==
    WriteReg(self, rt, SignExtend(<<immediate[1], immediate[2], 0, 0>>, 8))

sll(self, rd, rt, sa) ==
    LET t == Truncate(get_by_number(self.registers, rt), 4)
    IN WriteReg(self, rd, SignExtend(ShlN(t, sa), 8))

srl(self, rd, rt, sa) ==
    LET t == Truncate(get_by_number(self.registers, rt), 4)
    IN WriteReg(self, rd, SignExtend(SarN(t, sa), 8))

sra(self, rd, rt, sa) ==
    LET t == Truncate(get_by_number(self.registers, rt), 4)
        sign == WAnd(t, D(\h8000, \h0000))
        result == WAnd(SarN(t, sa), D(\hEFFF, \hFFFF))
    IN WriteReg(self, rd, SignExtend(WOr(result, sign), 8))

\* The low 5 (or 6) bits of a register, as a shift amount.
ShiftAmount(v, modulus) == v[8] % modulus

sllv(self, rd, rt, rs) ==
    LET t == get_by_number(self.registers, rt)
        s == ShiftAmount(get_by_number(self.registers, rs), 32)
    IN WriteReg(self, rd, ShlN(t, s))

srlv(self, rd, rt, rs) ==
    LET t == get_by_number(self.registers, rt)
        s == ShiftAmount(get_by_number(self.registers, rs), 32)
    IN WriteReg(self, rd, SarN(t, s))

srav(self, rd, rt, rs) ==
    LET t == get_by_number(self.registers, rt)
        s == ShiftAmount(get_by_number(self.registers, rs), 32)
    IN WriteReg(self, rd, SarN(t, s))

dsll(self, rd, rt, sa) == WriteReg(self, rd, ShlN(get_by_number(self.registers, rt), sa))

dsrl(self, rd, rt, sa) == WriteReg(self, rd, SarN(get_by_number(self.registers, rt), sa))

dsra(self, rd, rt, sa) == WriteReg(self, rd, SarN(get_by_number(self.registers, rt), sa))

dsllv(self, rd, rt, rs) ==
    LET t == get_by_number(self.registers, rt)
        s == ShiftAmount(get_by_number(self.registers, rs), 64)
    IN WriteReg(self, rd, ShlN(t, s))

dsrlv(self, rd, rt, rs) ==
    LET t == get_by_number(self.registers, rt)
        s == ShiftAmount(get_by_number(self.registers, rs), 64)
    IN WriteReg(self, rd, SarN(t, s))

dsrav(self, rd, rt, rs) ==
    LET t == get_by_number(self.registers, rt)
        s == ShiftAmount(get_by_number(self.registers, rs), 64)
    IN WriteReg(self, rd, SarN(t, s))

dsll32(self, rd, rt, sa) == WriteReg(self, rd, ShlN(get_by_number(self.registers, rt), 32 + sa))

dsrl32(self, rd, rt, sa) == WriteReg(self, rd, SarN(get_by_number(self.registers, rt), 32 + sa))

dsra32(self, rd, rt, sa) == WriteReg(self, rd, SarN(get_by_number(self.registers, rt), 32 + sa))

mfhi(self, rd) == WriteReg(self, rd, self.registers.hi)

mflo(self, rd) == WriteReg(self, rd, self.registers.lo)

mthi(self, rs) == [self EXCEPT !.registers = set_hi(@, get_by_number(self.registers, rs))]

mtlo(self, rs) == [self EXCEPT !.registers = set_lo(@, get_by_number(self.registers, rs))]

(***************************************************************************)
(* cpu.rs: jumps and branches.                                             *)
(***************************************************************************)

\* The region bits a jump keeps from the program counter: pc & 0xFFFFFFFFE0000000.
jump_region(pc) == WAnd(pc, Q(\hFFFF, \hFFFF, \hE000, \h0000))

\* (target as u64) << 2, target an i32.
jump_offset(target) == ShlBits(ShlBits(SignExtend(target, 8), 1), 1)

\* j with the target written to PC instead of next-PC.
j_writing_pc(self, target) ==
    LET pc == get_program_counter(self.registers)
    IN [self EXCEPT !.registers = set_program_counter(@, WOr(jump_region(pc), jump_offset(target)))]

j(self, target) ==
    LET pc == get_program_counter(self.registers)
    IN [self EXCEPT !.registers = set_next_program_counter(@, WOr(jump_region(pc), jump_offset(target)))]

jal(self, target) ==
    LET pc == get_program_counter(self.registers)
        r1 == set_by_number(self.registers, 31, WAdd(pc, Q(0, 0, 0, 8)))
    IN [self EXCEPT !.registers = set_next_program_counter(r1, WOr(jump_region(pc), jump_offset(target)))]

jalr(self, rd, rs) ==
    LET s == get_by_number(self.registers, rs)
        pc == get_program_counter(self.registers)
        r1 == set_by_number(self.registers, rd, WAdd(pc, Q(0, 0, 0, 8)))
    IN [self EXCEPT !.registers = set_next_program_counter(r1, s)]

jr(self, rs) ==
    [self EXCEPT !.registers = set_next_program_counter(@, get_by_number(self.registers, rs))]

\* The increment a taken branch adds to next-PC, offset an i16:
\* (((offset << 2) as u64) as i64) | ((((offset as u16) & 0x8000) as i16) as i64).
branch_increment(offset) ==
    WOr(SignExtend(ShlBits(ShlBits(offset, 1), 1), 8), SignExtend(WAnd(offset, H(\h8000)), 8))

\* self after a branch whose condition evaluated to taken.
Branch(self, taken, offset) ==
    IF taken
    THEN [self EXCEPT !.registers = increment_next_program_counter(@, branch_increment(offset))]
    ELSE self

\* self with the link address pc + 8 written to register 31.
Link(self) ==
    WriteReg(self, 31, WAdd(get_program_counter(self.registers), Q(0, 0, 0, 8)))

\* Signed comparisons of an i64 with 0.
IsZero(a) == a = Zero(Len(a))

beq(self, rs, rt, offset) ==
    Branch(self, get_by_number(self.registers, rs) = get_by_number(self.registers, rt), offset)

beql(self, rs, rt, offset) ==
    Branch(self, get_by_number(self.registers, rs) = get_by_number(self.registers, rt), offset)

bne(self, rs, rt, offset) ==
    Branch(self, get_by_number(self.registers, rs) # get_by_number(self.registers, rt), offset)

bnel(self, rs, rt, offset) ==
    Branch(self, get_by_number(self.registers, rs) # get_by_number(self.registers, rt), offset)

bgez(self, rs, offset) ==
    Branch(self, ~IsNeg(get_by_number(self.registers, rs)), offset)

\* bgezal linking only when the branch is taken.
bgezal_linking_taken(self, rs, offset) ==
    LET s == get_by_number(self.registers, rs)
    IN IF ~IsNeg(s) THEN Branch(Link(self), TRUE, offset) ELSE self

bgezal(self, rs, offset) ==
    LET s == get_by_number(self.registers, rs)
    IN Branch(Link(self), ~IsNeg(s), offset)

bgezall(self, rs, offset) ==
    LET s == get_by_number(self.registers, rs)
    IN Branch(Link(self), ~IsNeg(s), offset)

bgezl(self, rs, offset) ==
    Branch(self, ~IsNeg(get_by_number(self.registers, rs)), offset)

bgtz(self, rs, offset) ==
    LET s == get_by_number(self.registers, rs)
    IN Branch(self, ~IsNeg(s) /\ ~IsZero(s), offset)

bgtzl(self, rs, offset) ==
    LET s == get_by_number(self.registers, rs)
    IN Branch(self, ~IsNeg(s) /\ ~IsZero(s), offset)

blez(self, rs, offset) ==
    LET s == get_by_number(self.registers, rs)
    IN Branch(self, IsNeg(s) \/ IsZero(s), offset)

blezl(self, rs, offset) ==
    LET s == get_by_number(self.registers, rs)
    IN Branch(self, IsNeg(s) \/ IsZero(s), offset)

bltz(self, rs, offset) ==
    Branch(self, IsNeg(get_by_number(self.registers, rs)), offset)

bltzal(self, rs, offset) ==
    LET s == get_by_number(self.registers, rs)
    IN Branch(Link(self), IsNeg(s), offset)

bltzall(self, rs, offset) ==
    LET s == get_by_number(self.registers, rs)
    IN Branch(Link(self), IsNeg(s), offset)

bltzl(self, rs, offset) ==
    Branch(self, IsNeg(get_by_number(self.registers, rs)), offset)

(***************************************************************************)
(* cpu.rs: operand decoders.  An opcode (u32) is its 4 bytes <<o1..o4>>.   *)
(***************************************************************************)

\* (opcode >> 21) & 0b11111
Bits25_21(opcode) == (opcode[1] % 4) * 8 + (opcode[2] \div 32)

\* (opcode >> 16) & 0b11111
Bits20_16(opcode) == opcode[2] % 32

\* (opcode >> 11) & 0b11111
Bits15_11(opcode) == opcode[3] \div 8

\* (opcode >> 6) & 0b11111
Bits10_6(opcode) == (opcode[3] % 8) * 4 + (opcode[4] \div 64)

\* (opcode & 0xFFFF) as i16
Low16(opcode) == <<opcode[3], opcode[4]>>

params_rd_rs_rt(opcode) == [rd |-> Bits15_11(opcode), rs |-> Bits25_21(opcode), rt |-> Bits20_16(opcode)]

params_rd_rt_rs(opcode) == [rd |-> Bits15_11(opcode), rt |-> Bits20_16(opcode), rs |-> Bits25_21(opcode)]

\* The first component, which callers bind to rt, is read at bits 15..11.
params_rt_rs_immediate(opcode) == [rt |-> Bits15_11(opcode), rs |-> Bits25_21(opcode), immediate |-> Low16(opcode)]

\* Returns (rt, rs, offset) with rt read at bits 15..11; callers bind the
\* tuple to (rs, rt, offset), so the caller's rs is the first component.
params_rs_rt_offset(opcode) == [rs |-> Bits15_11(opcode), rt |-> Bits25_21(opcode), offset |-> Low16(opcode)]

params_rs_offset(opcode) == [rs |-> Bits25_21(opcode), offset |-> Low16(opcode)]

\* Returns (rt, rs) with rt read at bits 15..11; callers bind it to (rs, rt).
params_rs_rt(opcode) == [rs |-> Bits15_11(opcode), rt |-> Bits25_21(opcode)]

params_rt_immediate(opcode) == [rt |-> Bits20_16(opcode), immediate |-> Low16(opcode)]

params_rt_offset_base(opcode) == [rt |-> Bits20_16(opcode), offset |-> Low16(opcode), base |-> Bits25_21(opcode)]

params_rd_rt_sa(opcode) == [rd |-> Bits15_11(opcode), rt |-> Bits20_16(opcode), sa |-> Bits10_6(opcode)]

params_rt_rd(opcode) == [rt |-> Bits20_16(opcode), rd |-> Bits15_11(opcode)]

params_rd(opcode) == Bits15_11(opcode)

params_rs(opcode) == Bits25_21(opcode)

\* (opcode & 0x3FFFFFF) as i32
params_target(opcode) == <<opcode[1] % 4, opcode[2], opcode[3], opcode[4]>>

\* JALR's and JR's operands as exec_opcode reads them: 11-bit fields.
\* (opcode >> 10) & 0x7FF
jalr_rd(opcode) == (opcode[3] \div 4) + (opcode[2] % 32) * 64

\* (opcode >> 21) & 0x7FF
jalr_rs(opcode) == (opcode[2] \div 32) + opcode[1] * 8

(***************************************************************************)
(* cpu.rs: exec_opcode's match, as the name of the arm an opcode selects.  *)
(* "unimplemented" is the `_ => unimplemented!()` arm.                     *)
(***************************************************************************)

SpecialArm(funct) ==
    CASE funct = 32 -> "ADD"    [] funct = 33 -> "ADDU"   [] funct = 36 -> "AND"
      [] funct = 13 -> "BREAK"  [] funct = 44 -> "DADD"   [] funct = 45 -> "DADDU"
      [] funct = 30 -> "DDIV"   [] funct = 31 -> "DDIVU"  [] funct = 26 -> "DIV"
      [] funct = 27 -> "DIVU"   [] funct = 28 -> "DMULT"  [] funct = 29 -> "DMULTU"
      [] funct = 56 -> "DSLL"   [] funct = 20 -> "DSLLV"  [] funct = 60 -> "DSLL32"
      [] funct = 59 -> "DSRA"   [] funct = 23 -> "DSRAV"  [] funct = 63 -> "DSRA32"
      [] funct = 58 -> "DSRL"   [] funct = 22 -> "DSRLV"  [] funct = 62 -> "DSRL32"
      [] funct = 46 -> "DSUB"   [] funct = 47 -> "DSUBU"  [] funct = 9  -> "JALR"
      [] funct = 8  -> "JR"     [] funct = 16 -> "MFHI"   [] funct = 18 -> "MFLO"
      [] funct = 17 -> "MTHI"   [] funct = 19 -> "MTLO"   [] funct = 24 -> "MULT"
      [] funct = 25 -> "MULTU"  [] funct = 39 -> "NOR"    [] funct = 37 -> "OR"
      [] funct = 0  -> "SLL"    [] funct = 4  -> "SLLV"   [] funct = 42 -> "SLT"
      [] funct = 43 -> "SLTU"   [] funct = 3  -> "SRA"    [] funct = 7  -> "SRAV"
      [] funct = 2  -> "SRL"    [] funct = 6  -> "SRLV"   [] funct = 34 -> "SUB"
      [] funct = 35 -> "SUBU"   [] funct = 15 -> "SYNC"   [] funct = 12 -> "SYSCALL"
      [] funct = 52 -> "TEQ"    [] funct = 48 -> "TGE"    [] funct = 49 -> "TGEU"
      [] funct = 50 -> "TLT"    [] funct = 51 -> "TLTU"   [] funct = 54 -> "TNE"
      [] funct = 38 -> "XOR"
      [] OTHER -> "unimplemented"

RegimmArm(sel) ==
    CASE sel = 1  -> "BGEZ"    [] sel = 17 -> "BGEZAL" [] sel = 19 -> "BGEZALL"
      [] sel = 3  -> "BGEZL"   [] sel = 0  -> "BLTZ"   [] sel = 16 -> "BLTZAL"
      [] sel = 18 -> "BLTZALL" [] sel = 2  -> "BLTZL"  [] sel = 12 -> "TEQI"
      [] sel = 8  -> "TGEI"    [] sel = 9  -> "TGEIU"  [] sel = 10 -> "TLTI"
      [] sel = 11 -> "TLTIU"   [] sel = 14 -> "TNEI"
      [] OTHER -> "unimplemented"

Cop0Arm(sel, funct) ==
    CASE sel = 1 -> "DMFC0" [] sel = 5 -> "DMTC0" [] sel = 0 -> "MFC0" [] sel = 4 -> "MTC0"
      [] OTHER ->
         (CASE funct = 24 -> "ERET" [] funct = 8 -> "TLBP" [] funct = 1 -> "TLBR"
            [] funct = 2 -> "TLBWI" [] funct = 6 -> "TLBWR"
            [] OTHER -> "unimplemented")

\* The arm of exec_opcode that opcode selects; inst is bytes[0] >> 2.
Arm(opcode) ==
    LET inst == opcode[1] \div 4
    IN CASE inst = 0  -> SpecialArm(opcode[4] % 64)
         [] inst = 1  -> RegimmArm(Bits20_16(opcode))
         [] inst = 24 -> "DADDI" [] inst = 25 -> "DADDIU" [] inst = 8  -> "ADDI"
         [] inst = 9  -> "ADDIU" [] inst = 12 -> "ANDI"   [] inst = 13 -> "ORI"
         [] inst = 10 -> "SLTI"  [] inst = 11 -> "SLTIU"  [] inst = 15 -> "LUI"
         [] inst = 16 -> Cop0Arm(Bits25_21(opcode), opcode[4] % 64)
         [] inst = 32 -> "LB"    [] inst = 36 -> "LBU"    [] inst = 33 -> "LH"
         [] inst = 37 -> "LHU"   [] inst = 35 -> "LW"     [] inst = 34 -> "LWL"
         [] inst = 38 -> "LWR"   [] inst = 40 -> "SB"     [] inst = 41 -> "SH"
         [] inst = 43 -> "SW"    [] inst = 42 -> "SWL"    [] inst = 44 -> "SWR"
         [] inst = 52 -> "LLD"   [] inst = 39 -> "LWU"    [] inst = 56 -> "SC"
         [] inst = 60 -> "SCD"   [] inst = 63 -> "SD"     [] inst = 2  -> "J"
         [] inst = 14 -> "JAL"   [] inst = 4  -> "BEQ"    [] inst = 7  -> "BGTZ"
         [] inst = 23 -> "BGTZL" [] inst = 6  -> "BLEZ"   [] inst = 22 -> "BLEZL"
         [] inst = 5  -> "BNE"   [] inst = 21 -> "BNEL"
         [] OTHER -> "unimplemented"

(***************************************************************************)
(* mmu.rs, rdram.rs, rom.rs: address translation and the physical map.     *)
(* An MMU is [rdram, rom]: rdram maps the addresses written so far to      *)
(* their 9-bit cells (every other cell holds 0), rom is [data, ram] with   *)
(* data the bytes of the loaded file and ram a map like rdram.             *)
(***************************************************************************)

\* The virtual segments KUSEG, KSEG0, KSEG1, KSSEG, KSEG3.
Segments ==
    << [name |-> "KUSEG", min |-> Q(0, 0, \h0000, \h0000), max |-> Q(0, 0, \h7FFF, \hFFFF)],
       [name |-> "KSEG0", min |-> Q(0, 0, \h8000, \h0000), max |-> Q(0, 0, \h9FFF, \hFFFF)],
       [name |-> "KSEG1", min |-> Q(0, 0, \hA000, \h0000), max |-> Q(0, 0, \hBFFF, \hFFFF)],
       [name |-> "KSSEG", min |-> Q(0, 0, \hC000, \h0000), max |-> Q(0, 0, \hDFFF, \hFFFF)],
       [name |-> "KSEG3", min |-> Q(0, 0, \hE000, \h0000), max |-> Q(0, 0, \hFFFF, \hFFFF)] >>

\* The physical windows in the order read_physical_byte tests them.
Windows ==
    << [name |-> "RDRAM1",                       min |-> Q(0, 0, \h0000, \h0000), max |-> Q(0, 0, \h003F, \hFFFF)],
       [name |-> "RDRAM2",                       min |-> Q(0, 0, \h0040, \h0000), max |-> Q(0, 0, \h007F, \hFFFF)],
       [name |-> "RESERVED1",                    min |-> Q(0, 0, \h0080, \h0000), max |-> Q(0, 0, \h03EF, \hFFFF)],
       [name |-> "RDRAM_REGISTERS",              min |-> Q(0, 0, \h03F0, \h0000), max |-> Q(0, 0, \h03FF, \hFFFF)],
       [name |-> "RSP_DMEM",                     min |-> Q(0, 0, \h0400, \h0000), max |-> Q(0, 0, \h0400, \h0FFF)],
       [name |-> "RSP_IMEM",                     min |-> Q(0, 0, \h0400, \h1000), max |-> Q(0, 0, \h0400, \h1FFF)],
       [name |-> "UNKNOWN",                      min |-> Q(0, 0, \h0400, \h2000), max |-> Q(0, 0, \h0403, \hFFFF)],
       [name |-> "RSP_REGISTERS",                min |-> Q(0, 0, \h0404, \h0000), max |-> Q(0, 0, \h040F, \hFFFF)],
       [name |-> "RDP_COMMAND_REGISTERS",        min |-> Q(0, 0, \h0410, \h0000), max |-> Q(0, 0, \h041F, \hFFFF)],
       [name |-> "RDP_SPAN_REGISTERS",           min |-> Q(0, 0, \h0420, \h0000), max |-> Q(0, 0, \h042F, \hFFFF)],
       [name |-> "MIPS_INTERFACE",               min |-> Q(0, 0, \h0430, \h0000), max |-> Q(0, 0, \h043F, \hFFFF)],
       [name |-> "VIDEO_INTERFACE",              min |-> Q(0, 0, \h0440, \h0000), max |-> Q(0, 0, \h044F, \hFFFF)],
       [name |-> "AUDIO_INTERFACE",              min |-> Q(0, 0, \h0450, \h0000), max |-> Q(0, 0, \h045F, \hFFFF)],
       [name |-> "PERIPHERAL_INTERFACE",         min |-> Q(0, 0, \h0460, \h0000), max |-> Q(0, 0, \h046F, \hFFFF)],
       [name |-> "RDRAM_INTERFACE",              min |-> Q(0, 0, \h0470, \h0000), max |-> Q(0, 0, \h047F, \hFFFF)],
       [name |-> "SERIAL_INTERFACE",             min |-> Q(0, 0, \h0480, \h0000), max |-> Q(0, 0, \h048F, \hFFFF)],
       [name |-> "UNUSED",                       min |-> Q(0, 0, \h0490, \h0000), max |-> Q(0, 0, \h04FF, \hFFFF)],
       [name |-> "CARTRIDGE_DOMAIN_2_ADDRESS_1", min |-> Q(0, 0, \h0500, \h0000), max |-> Q(0, 0, \h05FF, \hFFFF)],
       [name |-> "CARTRIDGE_DOMAIN_1_ADDRESS_1", min |-> Q(0, 0, \h0600, \h0000), max |-> Q(0, 0, \h07FF, \hFFFF)],
       [name |-> "CARTRIDGE_DOMAIN_2_ADDRESS_2", min |-> Q(0, 0, \h0800, \h0000), max |-> Q(0, 0, \h0FFF, \hFFFF)],
       [name |-> "CARTRIDGE_DOMAIN_1_ADDRESS_2", min |-> Q(0, 0, \h1000, \h0000), max |-> Q(0, 0, \h1FBF, \hFFFF)],
       [name |-> "PIF_ROM",                      min |-> Q(0, 0, \h1FC0, \h0000), max |-> Q(0, 0, \h1FC0, \h07BF)],
       [name |-> "PIF_RAM",                      min |-> Q(0, 0, \h1FC0, \h07C0), max |-> Q(0, 0, \h1FC0, \h07FF)],
       [name |-> "RESERVED2",                    min |-> Q(0, 0, \h1FC0, \h0800), max |-> Q(0, 0, \h1FCF, \hFFFF)],
       [name |-> "CARTRIDGE_DOMAIN_1_ADDRESS_3", min |-> Q(0, 0, \h1FD0, \h0000), max |-> Q(0, 0, \h7FFF, \hFFFF)],
       [name |-> "EXTERNAL_SYSAD_DEVICE_BUS",    min |-> Q(0, 0, \h8000, \h0000), max |-> Q(0, 0, \hFFFF, \hFFFF)] >>

\* RangeInclusive::contains on i64 bounds.
Contains(range, address) == ~SLt(address, range.min) /\ ~SLt(range.max, address)

\* The name of the first range of table that contains address, or "none".
RangeOf(table, address) ==
    LET from[i \in 1..(Len(table) + 1)] ==
            IF i > Len(table) THEN "none"
            ELSE IF Contains(table[i], address) THEN table[i].name ELSE from[i + 1]
    IN from[1]

\* The lower bound of the named range.
RangeMin(table, name) == (CHOOSE w \in {table[i] : i \in 1..Len(table)} : w.name = name).min

\* convert taking KSEG1 from the base of KSEG0.
convert_from_kseg0(address) ==
    LET seg == RangeOf(Segments, address)
    IN IF seg = "none"
       THEN [panic |-> "unreachable", val |-> address]
       ELSE [panic |-> "none",
             val |-> WSub(address, RangeMin(Segments, IF seg = "KSEG1" THEN "KSEG0" ELSE seg))]

\* panic is "none" or the kind of the panic that ends the call.
convert(address) ==
    LET seg == RangeOf(Segments, address)
    IN IF seg = "none"
       THEN [panic |-> "unreachable", val |-> address]
       ELSE [panic |-> "none", val |-> WSub(address, RangeMin(Segments, seg))]

\* The value of a cell of a sparse map of cells, 0 where nothing was stored.
Cell(cells, at) == IF at \in DOMAIN cells THEN cells[at] ELSE 0

\* cells with v stored at at.
Store(cells, at, v) == [a \in (DOMAIN cells) \cup {at} |-> IF a = at THEN v ELSE cells[a]]

\* The number of cells of RDRAM.data, as an address.
RDRAM_LEN == Q(0, 0, \h0040, \h0000)

\* The length of ROM.ram after load_file, as an address.
ROM_RAM_LEN == Q(0, 0, \h0FC0, \h0000)

\* A file of n bytes as the address one past its last byte.
AsAddress(n) == Q(0, 0, 0, n)

MMU_new(file) ==
    [rdram |-> [a \in {} |-> 0], rom |-> [data |-> file, ram |-> [a \in {} |-> 0]]]

\* RDRAM::read8: an index past the array panics.
RDRAM_read8(rdram, address) ==
    IF ULt(address, RDRAM_LEN)
    THEN [panic |-> "none", val |-> Cell(rdram, address) % 256]
    ELSE [panic |-> "index", val |-> 0]

\* RDRAM::write8 with Byte::write8, which keeps bit 8 of the cell.
RDRAM_write8(rdram, address, data) ==
    IF ULt(address, RDRAM_LEN)
    THEN [panic |-> "none", val |-> Store(rdram, address, ((Cell(rdram, address) \div 256) % 2) * 256 + data)]
    ELSE [panic |-> "index", val |-> rdram]

ROM_read(rom, address) ==
    LET win == RangeOf(<<Windows[20], Windows[21]>>, address)
        off == WSub(address, RangeMin(Windows, win))
    IN CASE win = "CARTRIDGE_DOMAIN_2_ADDRESS_2" ->
              [panic |-> "none", val |-> IF ULt(off, ROM_RAM_LEN) THEN Cell(rom.ram, off) ELSE 255]
         [] win = "CARTRIDGE_DOMAIN_1_ADDRESS_2" ->
              [panic |-> "none",
               val |-> IF ULt(off, AsAddress(Len(rom.data))) THEN rom.data[off[8] + 1] ELSE 255]
         [] OTHER -> [panic |-> "unreachable", val |-> 0]

ROM_write(rom, address, data) ==
    LET off == WSub(address, RangeMin(Windows, "CARTRIDGE_DOMAIN_2_ADDRESS_2"))
    IN IF ULt(off, ROM_RAM_LEN) THEN [rom EXCEPT !.ram = Store(@, off, data)] ELSE rom

read_physical_byte(m, address) ==
    LET win == RangeOf(Windows, address)
    IN CASE win \in {"RDRAM1", "RDRAM2"} -> RDRAM_read8(m.rdram, address)
         [] win = "RESERVED1" -> [panic |-> "none", val |-> 255]
         [] win \in {"CARTRIDGE_DOMAIN_2_ADDRESS_2", "CARTRIDGE_DOMAIN_1_ADDRESS_2"} ->
              ROM_read(m.rom, address)
         [] win = "none" -> [panic |-> "none", val |-> 255]
         [] OTHER -> [panic |-> "none", val |-> 0]

\* write_physical_byte with RESERVED1 mirroring RDRAM: a write there lands
\* in the cell of RDRAM at the same offset.
write_physical_byte_mirrored(m, address, data) ==
    LET win == RangeOf(Windows, address)
    IN CASE win \in {"RDRAM1", "RDRAM2"} ->
              LET w == RDRAM_write8(m.rdram, address, data)
              IN [panic |-> w.panic, mmu |-> [m EXCEPT !.rdram = w.val]]
         [] win = "RESERVED1" ->
              LET w == RDRAM_write8(m.rdram, WSub(address, RangeMin(Windows, win)), data)
              IN [panic |-> w.panic, mmu |-> [m EXCEPT !.rdram = w.val]]
         [] win \in {"CARTRIDGE_DOMAIN_2_ADDRESS_2", "CARTRIDGE_DOMAIN_1_ADDRESS_2"} ->
              [panic |-> "none", mmu |-> [m EXCEPT !.rom = ROM_write(@, address, data)]]
         [] OTHER -> [panic |-> "none", mmu |-> m]

write_physical_byte(m, address, data) ==
    LET win == RangeOf(Windows, address)
    IN CASE win \in {"RDRAM1", "RDRAM2"} ->
              LET w == RDRAM_write8(m.rdram, address, data)
              IN [panic |-> w.panic, mmu |-> [m EXCEPT !.rdram = w.val]]
         [] win \in {"CARTRIDGE_DOMAIN_2_ADDRESS_2", "CARTRIDGE_DOMAIN_1_ADDRESS_2"} ->
              [panic |-> "none", mmu |-> [m EXCEPT !.rom = ROM_write(@, address, data)]]
         [] OTHER -> [panic |-> "none", mmu |-> m]

\* The loop reads the byte at address once per requested byte.
read_physical(m, address, bytes) ==
    LET b == read_physical_byte(m, address)
    IN IF bytes = 0 THEN [panic |-> "none", data |-> <<>>]
       ELSE [panic |-> b.panic, data |-> [i \in 1..bytes |-> b.val]]

\* The loop writes every byte of data to address, in order.
write_physical(m, address, data) ==
    LET after[i \in 0..Len(data)] ==
            IF i = 0 THEN [panic |-> "none", mmu |-> m]
            ELSE LET done == after[i - 1]
                 IN IF done.panic # "none" THEN done
                    ELSE write_physical_byte(done.mmu, address, data[i])
    IN after[Len(data)]

read_virtual(m, address, bytes) ==
    LET c == convert(address)
    IN IF c.panic # "none" THEN [panic |-> c.panic, data |-> <<>>]
       ELSE read_physical(m, c.val, bytes)

write_virtual(m, address, data) ==
    LET c == convert(address)
    IN IF c.panic # "none" THEN [panic |-> c.panic, mmu |-> m]
       ELSE write_physical(m, c.val, data)

(***************************************************************************)
(* cpu.rs: fetch, dispatch and the step.                                   *)
(***************************************************************************)

\* data[0] << 24 | data[1] << 16 | data[2] << 8 | data[3] << 8, as four bytes.
fetch_opcode(address, m) ==
    The({ IF r.panic # "none" THEN [panic |-> r.panic, opcode |-> Zero(4)]
          ELSE [panic |-> "none",
                opcode |-> <<r.data[1], r.data[2], ByteOr(r.data[3], r.data[4]), 0>>] :
          r \in {read_virtual(m, address, 4)} })

\* base + offset with `+` on i64: overflow is set where a build with overflow
\* checks panics; val is what a build without them computes.
EffectiveAddress(self, base, offset) ==
    LET b == get_by_number(self.registers, base)
        o == SignExtend(offset, 8)
    IN [overflow |-> ~checked_add(b, o).some, val |-> WAdd(b, o)]

\* The result of an arm that ran to its end.
Done(self, m) == [self |-> self, mmu |-> m, panic |-> "none", overflow |-> FALSE]

\* The result of an arm that ends in todo!() when its handler returned Err.
OrTodo(r, m) ==
    [self |-> r.self, mmu |-> m, panic |-> IF r.res.kind = "Err" THEN "todo" ELSE "none",
     overflow |-> FALSE]

\* The result of an arm whose handler may panic.
OrPanic(r, m) ==
    [self |-> r.self, mmu |-> m, panic |-> IF r.res.kind = "panic" THEN r.res.val ELSE "none",
     overflow |-> FALSE]

\* The result of an arm whose handler multiplies with `*`.
Wrapping(r, m) == [self |-> r.self, mmu |-> m, panic |-> "none", overflow |-> r.overflow]

\* The result of an arm that panics before any handler runs.
Panics(self, m, kind) == [self |-> self, mmu |-> m, panic |-> kind, overflow |-> FALSE]

\* What a handler that reaches memory leaves: the CPU, the MMU, the panic
\* that ended it ("none" if it returned) and whether one of its `+` on i64
\* overflowed.  A load that panics has written no register.
Loaded(self, rt, val, r, a, m) ==
    [self |-> IF r.panic = "none" THEN WriteReg(self, rt, val) ELSE self,
     mmu |-> m, panic |-> r.panic, overflow |-> a.overflow]

Stored(self, w, overflow) ==
    [self |-> self, mmu |-> w.mmu, panic |-> w.panic, overflow |-> overflow]

\* (d0 << 24) | (d1 << 16) | (d2 << 8) | (d3 << 8) on u32, as lw, lwu and
\* fetch_opcode assemble a word.
WordOf(data) == <<data[1], data[2], ByteOr(data[3], data[4]), 0>>

lw(self, rt, offset, base, m) ==
    The({ The({ Loaded(self, rt, SignExtend(WordOf(r.data), 8), r, a, m) :
                r \in {read_virtual(m, a.val, 4)} }) :
          a \in {EffectiveAddress(self, base, offset)} })

\* (4 - (address % 4)) as usize, % being Rust's remainder on i64.
bytes_to_read(address) ==
    IF IsNeg(address) THEN 4 + ((256 - address[8]) % 4) ELSE 4 - (address[8] % 4)

\* The u32 the loop of lwl and lwr accumulates from the bytes read.
Accumulated(data) == Truncate(Zero(4) \o data, 4)

\* 0xFFFFFFFF >> (8 * n) and 0xFFFFFFFF << (8 * n) on u32, n <= 4.
MaskRight(n) == [i \in 1..4 |-> IF i <= n THEN 0 ELSE 255]

MaskLeft(n) == [i \in 1..4 |-> IF i > 4 - n THEN 0 ELSE 255]

lwl(self, rt, offset, base, m) ==
    The({ The({ LET n == bytes_to_read(a.val)
                    t == Truncate(get_by_number(self.registers, rt), 4)
                    result == WOr(WAnd(t, MaskRight(n)), ShlBits(Accumulated(r.data), 4 - n))
                IN Loaded(self, rt, SignExtend(result, 8), r, a, m) :
                r \in {read_virtual(m, a.val, bytes_to_read(a.val))} }) :
          a \in {EffectiveAddress(self, base, offset)} })

lwr(self, rt, offset, base, m) ==
    The({ The({ LET n == bytes_to_read(a.val)
                    t == Truncate(get_by_number(self.registers, rt), 4)
                    result == WOr(WAnd(t, MaskLeft(n)), Accumulated(r.data))
                IN Loaded(self, rt, SignExtend(result, 8), r, a, m) :
                r \in {read_virtual(m, a.val, bytes_to_read(a.val))} }) :
          a \in {EffectiveAddress(self, base, offset)} })

sw(self, rt, offset, base, m) ==
    LET a == EffectiveAddress(self, base, offset)
    IN Stored(self, write_virtual(m, a.val, Truncate(get_by_number(self.registers, rt), 4)),
              a.overflow)

\* (address & 0x3) as usize
bytes_shift(address) == address[8] % 4

swl(self, rt, offset, base, m) ==
    LET a == EffectiveAddress(self, base, offset)
        t == SarN(get_by_number(self.registers, rt), 8 * bytes_shift(a.val))
    IN Stored(self, write_virtual(m, a.val, Truncate(t, 4)), a.overflow)

swr(self, rt, offset, base, m) ==
    LET a == EffectiveAddress(self, base, offset)
        t == ShlN(get_by_number(self.registers, rt), 8 * bytes_shift(a.val))
        a4 == checked_add(a.val, Q(0, 0, 0, 4))
    IN Stored(self, write_virtual(m, WAdd(a.val, Q(0, 0, 0, 4)), t), a.overflow \/ ~a4.some)

sd(self, rt, offset, base, m) ==
    LET a == EffectiveAddress(self, base, offset)
    IN Stored(self, write_virtual(m, a.val, get_by_number(self.registers, rt)), a.overflow)

lb(self, rt, offset, base, m) ==
    The({ The({ Loaded(self, rt, SignExtend(r.data, 8), r, a, m) :
                r \in {read_virtual(m, a.val, 1)} }) :
          a \in {EffectiveAddress(self, base, offset)} })

lbu(self, rt, offset, base, m) ==
    The({ The({ Loaded(self, rt, ZeroExtend(r.data, 8), r, a, m) :
                r \in {read_virtual(m, a.val, 1)} }) :
          a \in {EffectiveAddress(self, base, offset)} })

lh(self, rt, offset, base, m) ==
    The({ The({ Loaded(self, rt, SignExtend(r.data, 8), r, a, m) :
                r \in {read_virtual(m, a.val, 2)} }) :
          a \in {EffectiveAddress(self, base, offset)} })

lhu(self, rt, offset, base, m) ==
    The({ The({ Loaded(self, rt, ZeroExtend(r.data, 8), r, a, m) :
                r \in {read_virtual(m, a.val, 2)} }) :
          a \in {EffectiveAddress(self, base, offset)} })

sb(self, rt, offset, base, m) ==
    LET a == EffectiveAddress(self, base, offset)
    IN Stored(self, write_virtual(m, a.val, Truncate(get_by_number(self.registers, rt), 1)),
              a.overflow)

sh(self, rt, offset, base, m) ==
    LET a == EffectiveAddress(self, base, offset)
    IN Stored(self, write_virtual(m, a.val, Truncate(get_by_number(self.registers, rt), 2)),
              a.overflow)

lwu(self, rt, offset, base, m) ==
    The({ The({ Loaded(self, rt, ZeroExtend(WordOf(r.data), 8), r, a, m) :
                r \in {read_virtual(m, a.val, 4)} }) :
          a \in {EffectiveAddress(self, base, offset)} })

\* CP0Registers::set_by_name_32 on self.cp0: the name is looked up and the
\* 32-bit slot written; a name of a 64-bit slot is unreachable!().
CP0_REGISTER_NAMES ==
    << "index", "random", "EntryLo0", "EntryLo1", "context", "PageMask", "wired", "7",
       "BadVAddr", "count", "EntryHi", "compare", "status", "cause", "epc", "PRId",
       "config", "LLAddr", "WatchLo", "WatchHi", "XContext", "21", "22", "23",
       "24", "25", "ParityError", "CacheError", "TagLo", "TagHi", "ErrorEPC", "31" >>

set_by_name_32(cp0, name, val) ==
    LET index == (CHOOSE i \in 1..32 : CP0_REGISTER_NAMES[i] = name) - 1
    IN [cp0 EXCEPT ![index] = val]

\* CP0Registers::is_32bits: the indices of neither arm are unreachable!().
is_32bits(index) ==
    CASE index \in {0, 1, 5, 6, 9, 11, 12, 13, 15, 16, 17, 18, 19, 26, 27, 28, 29} ->
           [panic |-> "none", val |-> TRUE]
      [] index \in {2, 3, 4, 8, 10, 14, 20, 21, 22, 23, 24, 25, 30} ->
           [panic |-> "none", val |-> FALSE]
      [] OTHER -> [panic |-> "unreachable", val |-> FALSE]

\* The accessors of CP0Registers by number: an index of the other width
\* is unreachable!().
get_by_number_32(cp0, index) ==
    IF index \in {0, 1, 5, 6, 9, 11, 12, 13, 15, 16, 17, 18, 19, 26, 27, 28, 29}
    THEN [panic |-> "none", val |-> cp0[index]]
    ELSE [panic |-> "unreachable", val |-> Zero(4)]

set_by_number_32(cp0, index, val) ==
    IF index \in {0, 1, 5, 6, 9, 11, 12, 13, 15, 16, 17, 18, 19, 26, 27, 28, 29}
    THEN [panic |-> "none", val |-> [cp0 EXCEPT ![index] = val]]
    ELSE [panic |-> "unreachable", val |-> cp0]

get_by_number_64(cp0, index) ==
    IF index \in {2, 3, 4, 7, 8, 10, 14, 20, 21, 22, 23, 24, 25, 30, 31}
    THEN [panic |-> "none", val |-> cp0[index]]
    ELSE [panic |-> "unreachable", val |-> Zero(8)]

set_by_number_64(cp0, index, val) ==
    IF index \in {2, 3, 4, 7, 8, 10, 14, 20, 21, 22, 23, 24, 25, 30, 31}
    THEN [panic |-> "none", val |-> [cp0 EXCEPT ![index] = val]]
    ELSE [panic |-> "unreachable", val |-> cp0]

\* What a move leaves: the panic of is_32bits or of the accessor, which
\* comes before anything is written, or the CPU after the move.
Moved(self, after, panics) ==
    IF \E p \in panics : p # "none"
    THEN [self |-> self, res |-> Panicked(CHOOSE p \in panics : p # "none")]
    ELSE [self |-> after, res |-> Unit]

mtc0(self, rt, rd) ==
    LET w == is_32bits(rd)
        set == IF w.val
               THEN set_by_number_32(self.cp0, rd, Truncate(get_by_number(self.registers, rt), 4))
               ELSE set_by_number_64(self.cp0, rd, get_by_number(self.registers, rt))
    IN IF w.panic # "none" THEN Moved(self, self, {w.panic})
       ELSE Moved(self, [self EXCEPT !.cp0 = set.val], {set.panic})

mfc0(self, rt, rd) ==
    LET w == is_32bits(rd)
        got == IF w.val THEN get_by_number_32(self.cp0, rd) ELSE get_by_number_64(self.cp0, rd)
    IN IF w.panic # "none" THEN Moved(self, self, {w.panic})
       ELSE Moved(self, WriteReg(self, rt, SignExtend(got.val, 8)), {got.panic})

dmtc0(self, rt, rd) == mtc0(self, rt, rd)

dmfc0(self, rt, rd) == mfc0(self, rt, rd)

set_load_link(r, val) == [r EXCEPT !.load_link = val]

get_load_link(r) == r.load_link

\* lld reads 4 bytes and indexes the 8 bytes data[0]..data[7]: the index
\* past the end of what was read panics before anything is written.
lld(self, rt, offset, base, m) ==
    The({ The({ LET c == convert(a.val)
                    linked == [self EXCEPT !.registers = set_load_link(@, TRUE),
                                           !.cp0 = set_by_name_32(@, "LLAddr", Truncate(c.val, 4))]
                IN IF r.panic # "none"
                   THEN [self |-> self, mmu |-> m, panic |-> r.panic, overflow |-> a.overflow]
                   ELSE IF Len(r.data) < 8
                   THEN [self |-> self, mmu |-> m, panic |-> "index", overflow |-> a.overflow]
                   ELSE [self |-> WriteReg(linked, rt, [i \in 1..8 |-> r.data[i]]), mmu |-> m,
                         panic |-> c.panic, overflow |-> a.overflow] :
                r \in {read_virtual(m, a.val, 4)} }) :
          a \in {EffectiveAddress(self, base, offset)} })

\* sc storing whether or not the load-linked flag is set.
sc_storing(self, rt, offset, base, m) ==
    LET a == EffectiveAddress(self, base, offset)
    IN Stored(self, write_virtual(m, a.val, Truncate(get_by_number(self.registers, rt), 4)),
              a.overflow)

sc(self, rt, offset, base, m) ==
    IF get_load_link(self.registers)
    THEN LET a == EffectiveAddress(self, base, offset)
         IN Stored(self, write_virtual(m, a.val, Truncate(get_by_number(self.registers, rt), 4)),
                   a.overflow)
    ELSE Done(WriteReg(self, rt, Zero(8)), m)

scd(self, rt, offset, base, m) ==
    IF get_load_link(self.registers)
    THEN LET a == EffectiveAddress(self, base, offset)
         IN Stored(self, write_virtual(m, a.val, get_by_number(self.registers, rt)), a.overflow)
    ELSE Done(WriteReg(self, rt, Zero(8)), m)

\* exec_opcode on the arms whose handlers are defined above; opcode is the
\* four bytes of the u32, most significant first.
exec_opcode(self, opcode, m) ==
    LET arm == Arm(opcode)
        d3 == params_rd_rs_rt(opcode)
        v3 == params_rd_rt_rs(opcode)
        sa == params_rd_rt_sa(opcode)
        im == params_rt_rs_immediate(opcode)
        b2 == params_rs_rt_offset(opcode)
        b1 == params_rs_offset(opcode)
        hl == params_rs_rt(opcode)
    IN CASE arm = "ADD"    -> OrTodo(add(self, d3.rd, d3.rs, d3.rt), m)
         [] arm = "ADDU"   -> Done(addu(self, d3.rd, d3.rs, d3.rt), m)
         [] arm = "AND"    -> Done(and(self, d3.rd, d3.rs, d3.rt), m)
         [] arm = "BREAK"  -> Panics(self, m, "todo")
         [] arm = "DADD"   -> OrTodo(dadd(self, d3.rd, d3.rs, d3.rt), m)
         [] arm = "DADDU"  -> Done(daddu(self, d3.rd, d3.rs, d3.rt), m)
         [] arm = "DDIV"   -> OrPanic(ddiv(self, hl.rs, hl.rt), m)
         [] arm = "DDIVU"  -> OrPanic(ddivu(self, hl.rs, hl.rt), m)
         [] arm = "DIV"    -> OrPanic(div(self, hl.rs, hl.rt), m)
         [] arm = "DIVU"   -> OrPanic(divu(self, hl.rs, hl.rt), m)
         [] arm = "DMULT"  -> Done(dmult(self, hl.rs, hl.rt), m)
         [] arm = "DSLL"   -> Done(dsll(self, sa.rd, sa.rt, sa.sa), m)
         [] arm = "DSLLV"  -> Done(dsllv(self, v3.rd, v3.rt, v3.rs), m)
         [] arm = "DSLL32" -> Done(dsll32(self, sa.rd, sa.rt, sa.sa), m)
         [] arm = "DSRA"   -> Done(dsra(self, v3.rd, v3.rt, v3.rs), m)
         [] arm = "DSRAV"  -> Done(dsrav(self, v3.rd, v3.rt, v3.rs), m)
         [] arm = "DSRA32" -> Done(dsra32(self, sa.rd, sa.rt, sa.sa), m)
         [] arm = "DSRL"   -> Done(dsrl(self, sa.rd, sa.rt, sa.sa), m)
         [] arm = "DSRLV"  -> Done(dsrlv(self, v3.rd, v3.rt, v3.rs), m)
         [] arm = "DSRL32" -> Done(dsrl32(self, sa.rd, sa.rt, sa.sa), m)
         [] arm = "DSUB"   -> OrTodo(dsub(self, d3.rd, d3.rs, d3.rt), m)
         [] arm = "DSUBU"  -> Done(dsubu(self, d3.rd, d3.rs, d3.rt), m)
         [] arm = "JALR"   ->
              IF jalr_rd(opcode) > 31 \/ jalr_rs(opcode) > 31
              THEN Panics(self, m, "unreachable")
              ELSE Done(jalr(self, jalr_rd(opcode), jalr_rs(opcode)), m)
         [] arm = "JR"     ->
              IF jalr_rs(opcode) > 31
              THEN Panics(self, m, "unreachable")
              ELSE Done(jr(self, jalr_rs(opcode)), m)
         [] arm = "MFHI"   -> Done(mfhi(self, params_rd(opcode)), m)
         [] arm = "MFLO"   -> Done(mflo(self, params_rd(opcode)), m)
         [] arm = "MTHI"   -> Done(mthi(self, params_rs(opcode)), m)
         [] arm = "MTLO"   -> Done(mtlo(self, params_rs(opcode)), m)
         [] arm = "MULT"   -> Done(mult(self, hl.rs, hl.rt), m)
         [] arm = "MULTU"  -> Wrapping(multu(self, hl.rs, hl.rt), m)
         [] arm = "DMULTU" -> Wrapping(dmultu(self, hl.rs, hl.rt), m)
         [] arm = "NOR"    -> Done(nor(self, d3.rd, d3.rs, d3.rt), m)
         [] arm = "OR"     -> Done(or(self, d3.rd, d3.rs, d3.rt), m)
         [] arm = "SLL"    -> Done(sll(self, sa.rd, sa.rt, sa.sa), m)
         [] arm = "SLLV"   -> Done(sllv(self, v3.rd, v3.rt, v3.rs), m)
         [] arm = "SLT"    -> Done(slt(self, d3.rd, d3.rs, d3.rt), m)
         [] arm = "SLTU"   -> Done(slt(self, d3.rd, d3.rs, d3.rt), m)
         [] arm = "SRA"    -> Done(sra(self, sa.rd, sa.rt, sa.sa), m)
         [] arm = "SRAV"   -> Done(srav(self, v3.rd, v3.rt, v3.rs), m)
         [] arm = "SRL"    -> Done(srl(self, sa.rd, sa.rt, sa.sa), m)
         [] arm = "SRLV"   -> Done(srlv(self, sa.rd, sa.rt, sa.sa), m)
         [] arm = "SUB"    -> OrTodo(sub(self, d3.rd, d3.rs, d3.rt), m)
         [] arm = "SUBU"   -> Done(subu(self, d3.rd, d3.rs, d3.rt), m)
         [] arm = "XOR"    -> Done(xor(self, d3.rd, d3.rs, d3.rt), m)
         [] arm \in {"SYNC", "SYSCALL", "TEQ", "TGE", "TGEU", "TLT", "TLTU", "TNE",
                     "TEQI", "TGEI", "TGEIU", "TLTI", "TLTIU", "TNEI",
                     "ERET", "TLBP", "TLBR", "TLBWI", "TLBWR"} -> Done(self, m)
         [] arm = "BGEZ"    -> Done(bgez(self, b1.rs, b1.offset), m)
         [] arm = "BGEZAL"  -> Done(bgezal(self, b1.rs, b1.offset), m)
         [] arm = "BGEZALL" -> Done(bgezall(self, b1.rs, b1.offset), m)
         [] arm = "BGEZL"   -> Done(bgezl(self, b1.rs, b1.offset), m)
         [] arm = "BLTZ"    -> Done(bltz(self, b1.rs, b1.offset), m)
         [] arm = "BLTZAL"  -> Done(bltzal(self, b1.rs, b1.offset), m)
         [] arm = "BLTZALL" -> Done(bltzall(self, b1.rs, b1.offset), m)
         [] arm = "BLTZL"   -> Done(bltzl(self, b1.rs, b1.offset), m)
         [] arm = "DADDI"  -> OrTodo(daddi(self, im.rt, im.rs, im.immediate), m)
         [] arm = "DADDIU" -> Done(daddiu(self, im.rt, im.rs, im.immediate), m)
         [] arm = "ADDI"   -> OrTodo(addi(self, im.rt, im.rs, im.immediate), m)
         [] arm = "ADDIU"  -> Done(addiu(self, im.rt, im.rs, im.immediate), m)
         [] arm = "ANDI"   -> Done(andi(self, im.rt, im.rs, im.immediate), m)
         [] arm = "ORI"    -> Done(ori(self, im.rt, im.rs, im.immediate), m)
         [] arm = "SLTI"   -> Done(slti(self, im.rt, im.rs, im.immediate), m)
         [] arm = "SLTIU"  -> Done(sltiu(self, im.rt, im.rs, im.immediate), m)
         [] arm = "LUI"    ->
              LET p == params_rt_immediate(opcode) IN Done(lui(self, p.rt, p.immediate), m)
         [] arm \in {"DMFC0", "DMTC0", "MFC0", "MTC0"} ->
              (LET p == params_rt_rd(opcode)
               IN CASE arm = "DMFC0" -> OrPanic(dmfc0(self, p.rt, p.rd), m)
                    [] arm = "DMTC0" -> OrPanic(dmtc0(self, p.rt, p.rd), m)
                    [] arm = "MFC0"  -> OrPanic(mfc0(self, p.rt, p.rd), m)
                    [] arm = "MTC0"  -> OrPanic(mtc0(self, p.rt, p.rd), m))
         [] arm \in {"LB", "LBU", "LH", "LHU", "SB", "SH", "LWU"} ->
              (LET p == params_rt_offset_base(opcode)
               IN CASE arm = "LB"  -> lb(self, p.rt, p.offset, p.base, m)
                    [] arm = "LBU" -> lbu(self, p.rt, p.offset, p.base, m)
                    [] arm = "LH"  -> lh(self, p.rt, p.offset, p.base, m)
                    [] arm = "LHU" -> lhu(self, p.rt, p.offset, p.base, m)
                    [] arm = "SB"  -> sb(self, p.rt, p.offset, p.base, m)
                    [] arm = "SH"  -> sh(self, p.rt, p.offset, p.base, m)
                    [] arm = "LWU" -> lwu(self, p.rt, p.offset, p.base, m))
         [] arm \in {"LW", "LWL", "LWR", "SW", "SWL", "SWR", "LLD", "SC", "SCD", "SD"} ->
              (LET p == params_rt_offset_base(opcode)
               IN CASE arm = "LW"  -> lw(self, p.rt, p.offset, p.base, m)
                    [] arm = "LWL" -> lwl(self, p.rt, p.offset, p.base, m)
                    [] arm = "LWR" -> lwr(self, p.rt, p.offset, p.base, m)
                    [] arm = "SW"  -> sw(self, p.rt, p.offset, p.base, m)
                    [] arm = "SWL" -> swl(self, p.rt, p.offset, p.base, m)
                    [] arm = "SWR" -> swr(self, p.rt, p.offset, p.base, m)
                    [] arm = "LLD" -> lld(self, p.rt, p.offset, p.base, m)
                    [] arm = "SC"  -> sc(self, p.rt, p.offset, p.base, m)
                    [] arm = "SCD" -> scd(self, p.rt, p.offset, p.base, m)
                    [] arm = "SD"  -> sd(self, p.rt, p.offset, p.base, m))
         [] arm = "J"      -> Done(j(self, params_target(opcode)), m)
         [] arm = "JAL"    -> Done(jal(self, params_target(opcode)), m)
         [] arm = "BEQ"    -> Done(beq(self, b2.rs, b2.rt, b2.offset), m)
         [] arm = "BGTZ"   -> Done(bgtz(self, b1.rs, b1.offset), m)
         [] arm = "BGTZL"  -> Done(bgtzl(self, b1.rs, b1.offset), m)
         [] arm = "BLEZ"   -> Done(blez(self, b1.rs, b1.offset), m)
         [] arm = "BLEZL"  -> Done(blezl(self, b1.rs, b1.offset), m)
         [] arm = "BNE"    -> Done(bne(self, b2.rs, b2.rt, b2.offset), m)
         [] arm = "BNEL"   -> Done(bnel(self, b2.rs, b2.rt, b2.offset), m)
         [] arm = "unimplemented" -> Panics(self, m, "unimplemented")

\* advance with PC left where it was.
advance_keeping_pc(self) ==
    LET next_pc == get_next_program_counter(self.registers)
    IN [self EXCEPT !.registers = set_next_program_counter(@, WAdd(next_pc, Q(0, 0, 0, 4)))]

\* What fetch_and_exec_opcode does between the fetch and exec_opcode:
\* PC takes next-PC and next-PC moves on by 4.
advance(self) ==
    LET next_pc == get_next_program_counter(self.registers)
        r1 == set_program_counter(self.registers, next_pc)
    IN [self EXCEPT !.registers = set_next_program_counter(r1, WAdd(next_pc, Q(0, 0, 0, 4)))]

(***************************************************************************)
(* Bounds and inputs.                                                      *)
(***************************************************************************)

\* Register writes made from outside the CPU in one run.
MaxSets == 2

\* Handler calls made from outside the CPU in one run.
MaxOps == 1

\* Bytes sequences written through mut_mmu() in one run.
MaxPokes == 2

\* Steps of the emulator in one run.
MaxTicks == 3

\* Values written to registers: 1, -1, i32::MAX, i32::MIN, i64::MAX.
Values ==
    { Q(0, 0, 0, 1), Q(\hFFFF, \hFFFF, \hFFFF, \hFFFF),
      Q(0, 0, \h7FFF, \hFFFF), Q(\hFFFF, \hFFFF, \h8000, \h0000),
      Q(\h7FFF, \hFFFF, \hFFFF, \hFFFF) }

\* Registers written from outside, by number and by name.
Indices == {0, 1, 2}

Names == {"zero", "ra"}

\* Operand registers of the handler calls.
Destinations == {0, 3}

\* 16-bit immediates and branch offsets: 1, 32767, -32768, -1.
Immediates == {H(\h0001), H(\h7FFF), H(\h8000), H(\hFFFF)}

\* 26-bit jump targets.
Targets == {D(0, 1), D(\h03FF, \hFFFF)}

\* Values given to PC from outside.
Counters == {Q(\hFF00, 0, 0, 0), Q(0, 0, \h9000, \h0000)}

\* The file MMU::new loads.
File == <<\h80, \h37, \h12, \h40>>

\* Where the embedder writes, and what: the entry point of new_hle, the two
\* words after it and the word the J stored there jumps to.
PokeAddresses ==
    { Q(0, 0, \h8000, \h1000), Q(0, 0, \h8000, \h1004), Q(0, 0, \h8000, \h1008) }

PokeData ==
    { <<\h08>>, <<\h10>>, <<\h14>>, <<\h24>>, <<\h38>>, <<\h0C>>, <<\h55>>,
      <<\h3C, \h03, \h00, \h20>> }

(***************************************************************************)
(* The handlers as a caller reaches them, by signature.  Handlers that     *)
(* return nothing are given the result Unit.                               *)
(***************************************************************************)

Unitary(self) == [self |-> self, res |-> Unit]

HandlerRdRsRt(op, self, rd, rs, rt) ==
    CASE op = "add"   -> add(self, rd, rs, rt)
      [] op = "dadd"  -> dadd(self, rd, rs, rt)
      [] op = "sub"   -> sub(self, rd, rs, rt)
      [] op = "dsub"  -> dsub(self, rd, rs, rt)
      [] op = "addu"  -> Unitary(addu(self, rd, rs, rt))
      [] op = "daddu" -> Unitary(daddu(self, rd, rs, rt))
      [] op = "subu"  -> Unitary(subu(self, rd, rs, rt))
      [] op = "dsubu" -> Unitary(dsubu(self, rd, rs, rt))
      [] op = "and"   -> Unitary(and(self, rd, rs, rt))
      [] op = "or"    -> Unitary(or(self, rd, rs, rt))
      [] op = "xor"   -> Unitary(xor(self, rd, rs, rt))
      [] op = "nor"   -> Unitary(nor(self, rd, rs, rt))
      [] op = "slt"   -> Unitary(slt(self, rd, rs, rt))
      [] op = "sltu"  -> Unitary(sltu(self, rd, rs, rt))

HandlerRtRsImmediate(op, self, rt, rs, immediate) ==
    CASE op = "addi"   -> addi(self, rt, rs, immediate)
      [] op = "daddi"  -> daddi(self, rt, rs, immediate)
      [] op = "addiu"  -> Unitary(addiu(self, rt, rs, immediate))
      [] op = "daddiu" -> Unitary(daddiu(self, rt, rs, immediate))
      [] op = "andi"   -> Unitary(andi(self, rt, rs, immediate))
      [] op = "ori"    -> Unitary(ori(self, rt, rs, immediate))
      [] op = "xori"   -> Unitary(xori(self, rt, rs, immediate))
      [] op = "slti"   -> Unitary(slti(self, rt, rs, immediate))
      [] op = "sltiu"  -> Unitary(sltiu(self, rt, rs, immediate))

HandlerRsRt(op, self, rs, rt) ==
    CASE op = "mult"  -> Unitary(mult(self, rs, rt))
      [] op = "dmult" -> Unitary(dmult(self, rs, rt))
      [] op = "div"   -> div(self, rs, rt)
      [] op = "ddiv"  -> ddiv(self, rs, rt)
      [] op = "divu"  -> divu(self, rs, rt)
      [] op = "ddivu" -> ddivu(self, rs, rt)

HandlerTarget(op, self, target) ==
    CASE op = "j"   -> Unitary(j(self, target))
      [] op = "jal" -> Unitary(jal(self, target))

HandlerRsRtOffset(op, self, rs, rt, offset) ==
    CASE op = "beq"  -> Unitary(beq(self, rs, rt, offset))
      [] op = "beql" -> Unitary(beql(self, rs, rt, offset))
      [] op = "bne"  -> Unitary(bne(self, rs, rt, offset))
      [] op = "bnel" -> Unitary(bnel(self, rs, rt, offset))

HandlerRsOffset(op, self, rs, offset) ==
    CASE op = "bgez"    -> Unitary(bgez(self, rs, offset))
      [] op = "bgezal"  -> Unitary(bgezal(self, rs, offset))
      [] op = "bgezall" -> Unitary(bgezall(self, rs, offset))
      [] op = "bgezl"   -> Unitary(bgezl(self, rs, offset))
      [] op = "bgtz"    -> Unitary(bgtz(self, rs, offset))
      [] op = "bgtzl"   -> Unitary(bgtzl(self, rs, offset))
      [] op = "blez"    -> Unitary(blez(self, rs, offset))
      [] op = "blezl"   -> Unitary(blezl(self, rs, offset))
      [] op = "bltz"    -> Unitary(bltz(self, rs, offset))
      [] op = "bltzal"  -> Unitary(bltzal(self, rs, offset))
      [] op = "bltzall" -> Unitary(bltzall(self, rs, offset))
      [] op = "bltzl"   -> Unitary(bltzl(self, rs, offset))

OpsRdRsRt ==
    {"add", "dadd", "sub", "dsub", "addu", "daddu", "subu", "dsubu",
     "and", "or", "xor", "nor", "slt", "sltu"}

OpsRtRsImmediate ==
    {"addi", "daddi", "addiu", "daddiu", "andi", "ori", "xori", "slti", "sltiu"}

OpsRsRt == {"mult", "dmult"}

OpsTarget == {"j", "jal"}

OpsRsRtOffset == {"beq", "beql", "bne", "bnel"}

OpsRsOffset ==
    {"bgez", "bgezal", "bgezall", "bgezl", "bgtz", "bgtzl",
     "blez", "blezl", "bltz", "bltzal", "bltzall", "bltzl"}

(***************************************************************************)
(* The state machine.                                                      *)
(***************************************************************************)

\* The record of an operation: its name, its register operands x, y, z (0
\* where the operation has fewer), its immediate or value, and the CPU it
\* started from.
Was(op, x, y, z, imm) == [op |-> op, x |-> x, y |-> y, z |-> z, imm |-> imm, pre |-> cpu]

\* A panic ends the program: nothing runs after it.
Running == outcome.kind # "panic"

Init ==
    /\ cpu \in {CPU_new, CPU_new_hle}
    /\ mmu = MMU_new(File)
    /\ outcome = [kind |-> "none"]
    /\ last = [op |-> "new", x |-> 0, y |-> 0, z |-> 0, imm |-> <<>>, pre |-> CPU_new]
    /\ calls = [sets |-> 0, ops |-> 0, pokes |-> 0, ticks |-> 0]
    /\ fetched = <<>>
    /\ history = <<>>

\* An operation from outside on the register file alone.
Sets(op, x, imm, registers) ==
    /\ Running
    /\ calls.sets < MaxSets
    /\ cpu' = [cpu EXCEPT !.registers = registers]
    /\ outcome' = Unit
    /\ last' = Was(op, x, 0, 0, imm)
    /\ calls' = [calls EXCEPT !.sets = @ + 1]
    /\ UNCHANGED <<mmu, fetched, history>>

SetByNumber(index, val) ==
    Sets("set_by_number", index, val, set_by_number(cpu.registers, index, val))

SetByName(name, val) ==
    Sets("set_by_name", find_index(name), val, set_by_name(cpu.registers, name, val))

SetProgramCounter(val) ==
    Sets("set_program_counter", 0, val, set_program_counter(cpu.registers, val))

\* A handler called from outside, r what it yields on the current CPU.
Calls(op, x, y, z, imm, r) ==
    /\ Running
    /\ calls.ops < MaxOps
    /\ cpu' = r.self
    /\ outcome' = r.res
    /\ last' = Was(op, x, y, z, imm)
    /\ calls' = [calls EXCEPT !.ops = @ + 1]
    /\ UNCHANGED <<mmu, fetched, history>>

CallRdRsRt(op, rd, rs, rt) ==
    Calls(op, rd, rs, rt, <<>>, HandlerRdRsRt(op, cpu, rd, rs, rt))

CallRtRsImmediate(op, rt, rs, immediate) ==
    Calls(op, rt, rs, 0, immediate, HandlerRtRsImmediate(op, cpu, rt, rs, immediate))

CallRsRt(op, rs, rt) ==
    Calls(op, rs, rt, 0, <<>>, HandlerRsRt(op, cpu, rs, rt))

CallTarget(op, target) ==
    Calls(op, 0, 0, 0, target, HandlerTarget(op, cpu, target))

CallJalr(rd, rs) ==
    Calls("jalr", rd, rs, 0, <<>>, Unitary(jalr(cpu, rd, rs)))

CallJr(rs) ==
    Calls("jr", rs, 0, 0, <<>>, Unitary(jr(cpu, rs)))

CallRsRtOffset(op, rs, rt, offset) ==
    Calls(op, rs, rt, 0, offset, HandlerRsRtOffset(op, cpu, rs, rt, offset))

CallRsOffset(op, rs, offset) ==
    Calls(op, rs, 0, 0, offset, HandlerRsOffset(op, cpu, rs, offset))

\* Emulator::mut_mmu().write_virtual(address, data).
Poke(address, data) ==
    LET w == write_virtual(mmu, address, data)
    IN /\ Running
       /\ calls.pokes < MaxPokes
       /\ mmu' = w.mmu
       /\ outcome' = IF w.panic = "none" THEN Unit ELSE Panicked(w.panic)
       /\ last' = Was("write_virtual", 0, 0, 0, address)
       /\ calls' = [calls EXCEPT !.pokes = @ + 1]
       /\ UNCHANGED <<cpu, fetched, history>>

\* Emulator::tick, that is fetch_and_exec_opcode: the opcode is fetched at
\* PC, PC and next-PC advance, and the opcode is executed.  A checked `+`
\* that overflows panics in a build with overflow checks and wraps in one
\* without: both are taken.
Tick ==
    /\ Running
    /\ calls.ticks < MaxTicks
    /\ \E f \in {fetch_opcode(get_program_counter(cpu.registers), mmu)} :
       \E advanced \in {advance(cpu)} :
       \E r \in {IF f.panic # "none" THEN Panics(cpu, mmu, f.panic)
                 ELSE exec_opcode(advanced, f.opcode, mmu)} :
       \E checks \in BOOLEAN :
         /\ ~r.overflow => checks
         /\ cpu' = IF r.overflow /\ checks THEN advanced ELSE r.self
         /\ mmu' = IF r.overflow /\ checks THEN mmu ELSE r.mmu
         /\ outcome' = IF r.overflow /\ checks THEN Panicked("overflow")
                        ELSE IF r.panic = "none" THEN Unit ELSE Panicked(r.panic)
         /\ last' = Was("tick", 0, 0, 0, f.opcode)
         /\ fetched' = Append(fetched,
                              [at      |-> get_program_counter(cpu.registers),
                               arm     |-> IF f.panic = "none" THEN Arm(f.opcode) ELSE "none",
                               next_in |-> get_next_program_counter(cpu.registers),
                               pc      |-> get_program_counter(cpu'.registers),
                               next    |-> get_next_program_counter(cpu'.registers),
                               opcode  |-> f.opcode,
                               before  |-> [cpu |-> cpu, mmu |-> mmu],
                               after   |-> [cpu |-> cpu', mmu |-> mmu']])
    /\ calls' = [calls EXCEPT !.ticks = @ + 1]
    /\ UNCHANGED history

\* The emulator as its embedder drives it.
Next ==
    \/ \E address \in PokeAddresses, data \in PokeData : Poke(address, data)
    \/ Tick

Spec == Init /\ [][Next]_vars

\* The CPU as a caller of its handlers drives it.
NextHandlers ==
    \/ \E index \in Indices, val \in Values : SetByNumber(index, val)
    \/ \E name \in Names, val \in Values : SetByName(name, val)
    \/ \E val \in Counters : SetProgramCounter(val)
    \/ \E op \in OpsRdRsRt, rd \in Destinations : CallRdRsRt(op, rd, 1, 2)
    \/ \E op \in OpsRtRsImmediate, rt \in Destinations, immediate \in Immediates :
         CallRtRsImmediate(op, rt, 1, immediate)
    \/ \E op \in OpsRsRt : CallRsRt(op, 1, 2)
    \/ \E op \in OpsTarget, target \in Targets : CallTarget(op, target)
    \/ \E rd \in Destinations : CallJalr(rd, 1)
    \/ CallJr(1)
    \/ \E op \in OpsRsRtOffset, offset \in Immediates : CallRsRtOffset(op, 1, 2, offset)
    \/ \E op \in OpsRsOffset, offset \in Immediates : CallRsOffset(op, 1, offset)

SpecHandlers == Init /\ [][NextHandlers]_vars

(***************************************************************************)
(* Calls that reach memory: the operations of the MMU and the load and     *)
(* store handlers.  Each is recorded in history with the state it started  *)
(* from and the state it left.                                             *)
(***************************************************************************)

\* Calls of MMU operations in one run.
MaxAccesses == 2

\* Calls of lld, sc, scd and lw in one run.
MaxLinked == 3

\* Calls of swl, swr, lwl and lwr in one run.
MaxUnaligned == 4

\* Addresses given to convert: offsets 0x10 and 0x1FFFFFFF of the windows
\* at 0x80000000 and 0xA0000000, the sp of the HLE boot state and the
\* first address above 0xFFFFFFFF.
ConvertAddresses ==
    { Q(0, 0, \h8000, \h0010), Q(0, 0, \hA000, \h0010),
      Q(0, 0, \h9FFF, \hFFFF), Q(0, 0, \hBFFF, \hFFFF),
      Q(\hFFFF, \hFFFF, \hA400, \h1FF0), Q(0, 1, 0, 0) }

\* Virtual addresses read and written.
AccessAddresses ==
    { Q(0, 0, \h8000, \h0010), Q(0, 0, \hA000, \h0010), Q(\hFFFF, \hFFFF, \hA400, \h1FF0) }

\* Physical addresses read and written.
PhysicalAddresses == { Q(0, 0, 0, \h0010), Q(0, 0, 0, \h0011) }

AccessData == { <<\h12>>, <<\h12, \h34, \h56, \h78>> }

AccessSizes == {1, 4}

\* Offsets from register 0 that the handlers are called with: the four
\* alignments of the word at 0x10.
Alignments == { H(\h0010), H(\h0011), H(\h0012), H(\h0013) }

\* Registers the linked handlers are called on: s4 and s6, which the HLE
\* boot state sets to 1 and 0x3F.
LinkedRegisters == {20, 22}

\* The register the unaligned stores take the word from (t3, which the HLE
\* boot state sets to 0xFFFFFFFFA4000040) and the one the loads fill (s6).
StoredRegister == find_index("t3")

LoadedRegister == find_index("s6")

HandlerRtOffsetBase(op, self, rt, offset, base, m) ==
    CASE op = "lw"  -> lw(self, rt, offset, base, m)
      [] op = "lwl" -> lwl(self, rt, offset, base, m)
      [] op = "lwr" -> lwr(self, rt, offset, base, m)
      [] op = "sw"  -> sw(self, rt, offset, base, m)
      [] op = "swl" -> swl(self, rt, offset, base, m)
      [] op = "swr" -> swr(self, rt, offset, base, m)
      [] op = "lld" -> lld(self, rt, offset, base, m)
      [] op = "sc"  -> sc(self, rt, offset, base, m)
      [] op = "scd" -> scd(self, rt, offset, base, m)
      [] op = "sd"  -> sd(self, rt, offset, base, m)

\* What a call yields: Ok with a value, () or the panic that ended it.
Yields(panic, res) == IF panic = "none" THEN res ELSE Panicked(panic)

\* What history keeps of a state around a call on register rt: the value
\* of the register, the load-linked flag, CP0 LLAddr and the MMU.
Seen(c, m, rt) ==
    [rt |-> get_by_number(c.registers, rt), load_link |-> get_load_link(c.registers),
     lladdr |-> c.cp0[17], mmu |-> m]

\* A recorded call: c and m are the CPU and MMU it leaves, o what it yields;
\* counter names the count in calls that bounds it.
Record(op, rt, base, offset, address, data, counter, max, c, m, o) ==
    /\ Running
    /\ calls[counter] < max
    /\ cpu' = c
    /\ mmu' = m
    /\ outcome' = o
    /\ last' = Was(op, rt, base, 0, address)
    /\ history' = Append(history,
                         [op |-> op, rt |-> rt, base |-> base, offset |-> offset,
                          address |-> address, data |-> data,
                          before |-> Seen(cpu, mmu, rt),
                          after |-> Seen(c, m, rt), outcome |-> o])
    /\ calls' = [calls EXCEPT ![counter] = @ + 1]
    /\ UNCHANGED fetched

Convert(address) ==
    /\ Running
    /\ calls.pokes < MaxAccesses
    /\ \E c \in {convert(address)} :
      Record("convert", 0, 0, <<>>, address, <<>>, "pokes", MaxAccesses,
             cpu, mmu, Yields(c.panic, Ok(c.val)))

WriteVirtual(address, data) ==
    /\ Running
    /\ calls.pokes < MaxAccesses
    /\ \E w \in {write_virtual(mmu, address, data)} :
      Record("write_virtual", 0, 0, <<>>, address, data, "pokes", MaxAccesses,
             cpu, w.mmu, Yields(w.panic, Unit))

ReadVirtual(address, bytes) ==
    /\ Running
    /\ calls.pokes < MaxAccesses
    /\ \E r \in {read_virtual(mmu, address, bytes)} :
      Record("read_virtual", 0, 0, <<>>, address, Zero(bytes), "pokes", MaxAccesses,
             cpu, mmu, Yields(r.panic, Ok(r.data)))

WritePhysical(address, data) ==
    /\ Running
    /\ calls.pokes < MaxAccesses
    /\ \E w \in {write_physical(mmu, address, data)} :
      Record("write_physical", 0, 0, <<>>, address, data, "pokes", MaxAccesses,
             cpu, w.mmu, Yields(w.panic, Unit))

ReadPhysical(address, bytes) ==
    /\ Running
    /\ calls.pokes < MaxAccesses
    /\ \E r \in {read_physical(mmu, address, bytes)} :
      Record("read_physical", 0, 0, <<>>, address, Zero(bytes), "pokes", MaxAccesses,
             cpu, mmu, Yields(r.panic, Ok(r.data)))

\* A load or store handler called from outside.  An overflowing `+` panics
\* in a build with overflow checks and wraps in one without: both are taken.
CallRtOffsetBase(op, rt, offset, base, max) ==
    /\ Running
    /\ calls.ops < max
    /\ \E r \in {HandlerRtOffsetBase(op, cpu, rt, offset, base, mmu)} :
       \E checks \in BOOLEAN :
       \E trapped \in {r.overflow /\ checks} :
         /\ ~r.overflow => checks
         /\ Record(op, rt, base, offset, EffectiveAddress(cpu, base, offset).val, <<>>,
                   "ops", max,
                   IF trapped THEN cpu ELSE r.self,
                   IF trapped THEN mmu ELSE r.mmu,
                   IF trapped THEN Panicked("overflow") ELSE Yields(r.panic, Unit))

SetLoadLink(val) ==
    Sets("set_load_link", 0, <<>>, set_load_link(cpu.registers, val))

\* The MMU as its callers drive it.
NextMemory ==
    \/ \E address \in ConvertAddresses : Convert(address)
    \/ \E address \in AccessAddresses, data \in AccessData : WriteVirtual(address, data)
    \/ \E address \in AccessAddresses, bytes \in AccessSizes : ReadVirtual(address, bytes)
    \/ \E address \in PhysicalAddresses, data \in AccessData : WritePhysical(address, data)
    \/ \E address \in PhysicalAddresses, bytes \in AccessSizes : ReadPhysical(address, bytes)

SpecMemory == Init /\ [][NextMemory]_vars

\* The load-linked and store-conditional handlers, with a word load to
\* observe what was stored.
NextLinked ==
    \/ \E val \in BOOLEAN : SetLoadLink(val)
    \/ \E op \in {"lld", "sc", "scd", "lw"}, rt \in LinkedRegisters :
         CallRtOffsetBase(op, rt, H(\h0010), 0, MaxLinked)

SpecLinked == Init /\ [][NextLinked]_vars

\* The unaligned word handlers.
NextUnaligned ==
    \/ \E op \in {"swl", "swr"}, offset \in Alignments :
         CallRtOffsetBase(op, StoredRegister, offset, 0, MaxUnaligned)
    \/ \E op \in {"lwl", "lwr"}, offset \in Alignments :
         CallRtOffsetBase(op, LoadedRegister, offset, 0, MaxUnaligned)

SpecUnaligned == Init /\ [][NextUnaligned]_vars

\* The division handlers.
OpsDivide == {"div", "ddiv", "divu", "ddivu"}

\* Dividends and divisors: 0, 2, 7, -7, -1 and i32::MIN.
DivideValues ==
    { Zero(8), Q(0, 0, 0, 2), Q(0, 0, 0, 7), Q(\hFFFF, \hFFFF, \hFFFF, \hFFF9),
      Q(\hFFFF, \hFFFF, \hFFFF, \hFFFF), Q(\hFFFF, \hFFFF, \h8000, \h0000) }

\* The divisions on registers 1 and 2, which the caller sets.
NextDivide ==
    \/ \E index \in {1, 2}, val \in DivideValues : SetByNumber(index, val)
    \/ \E op \in OpsDivide : CallRsRt(op, 1, 2)

SpecDivide == Init /\ [][NextDivide]_vars

(***************************************************************************)
(* exec_opcode called on instruction words, as the tests of cpu.rs call    *)
(* it, on registers 1 and 2 that the caller sets.                          *)
(***************************************************************************)

\* Calls of exec_opcode in one run.
MaxExecs == 2

\* Values given to registers 1 and 2: 1, -1 and i64::MAX.
ExecValues ==
    { Q(0, 0, 0, 1), Q(\hFFFF, \hFFFF, \hFFFF, \hFFFF), Q(\h7FFF, \hFFFF, \hFFFF, \hFFFF) }

\* Words no arm of exec_opcode takes: primary opcode 3, SPECIAL with
\* function 1, REGIMM with selector 4 and COP0 with selector 2, function 0.
UnknownWords == { D(\h0C00, \h0000), D(\h0022, \h1801), D(\h0424, \h0001), D(\h4040, \h0000) }

\* MTC0, DMTC0 from register 1 and MFC0, DMFC0 to register 2, on the CP0
\* registers 12 (status), 14 (epc), 7 and 31.
Cop0Words ==
    { D(\h4081, \h6000), D(\h4081, \h7000), D(\h4081, \h3800), D(\h4081, \hF800),
      D(\h40A1, \h6000), D(\h40A1, \h7000),
      D(\h4002, \h6000), D(\h4002, \h7000), D(\h4002, \h3800), D(\h4002, \hF800),
      D(\h4022, \h6000), D(\h4022, \h7000) }

\* JALR rd = 31, rs = 1; JALR rd = 3, rs = 1; JR rs = 1.
JumpRegisterWords == { D(\h0020, \hF809), D(\h0020, \h1809), D(\h0020, \h0008) }

\* SLT and SLTU with rd = 3, rs = 1, rt = 2.
CompareWords == { D(\h0022, \h182A), D(\h0022, \h182B) }

\* ADDI, ADDIU, ANDI, ORI with rt = 3, rs = 1 and LUI with rt = 3, the
\* immediate 0x2005.
ImmediateWords ==
    { D(\h2023, \h2005), D(\h2423, \h2005), D(\h3023, \h2005), D(\h3423, \h2005),
      D(\h3C03, \h2005) }

Words == UnknownWords \cup Cop0Words \cup JumpRegisterWords \cup CompareWords \cup ImmediateWords

\* CPU::exec_opcode(opcode, mmu).  An overflowing `+` or `*` panics in a
\* build with overflow checks and wraps in one without: both are taken.
ExecOpcode(opcode) ==
    /\ Running
    /\ calls.ops < MaxExecs
    /\ \E r \in {exec_opcode(cpu, opcode, mmu)} :
       \E checks \in BOOLEAN :
         /\ ~r.overflow => checks
         /\ cpu' = IF r.overflow /\ checks THEN cpu ELSE r.self
         /\ mmu' = IF r.overflow /\ checks THEN mmu ELSE r.mmu
         /\ outcome' = IF r.overflow /\ checks THEN Panicked("overflow")
                        ELSE IF r.panic = "none" THEN Unit ELSE Panicked(r.panic)
    /\ last' = Was("exec_opcode", 0, 0, 0, opcode)
    /\ calls' = [calls EXCEPT !.ops = @ + 1]
    /\ UNCHANGED <<fetched, history>>

NextExec ==
    \/ \E index \in {1, 2}, val \in ExecValues : SetByNumber(index, val)
    \/ \E opcode \in Words : ExecOpcode(opcode)

SpecExec == Init /\ [][NextExec]_vars

(***************************************************************************)
(* Two emulators of one build started in the same state and stepped        *)
(* independently.  The first is cpu, mmu, outcome, with its steps counted  *)
(* in calls.ticks; history holds the second as its one element, with the   *)
(* build both run.                                                         *)
(***************************************************************************)

\* Stepped with CP0 Count taken from a clock the two emulators share: the
\* steps both have taken.
Stepped_clocked(advanced, m, r, checks) ==
    LET trapped == r.overflow /\ checks
        clock == Small(calls.ticks + history[1].ticks, 4)
    IN [cpu |-> [(IF trapped THEN advanced ELSE r.self) EXCEPT !.cp0[9] = clock],
        mmu |-> IF trapped THEN m ELSE r.mmu,
        outcome |-> IF trapped THEN Panicked("overflow")
                    ELSE IF r.panic = "none" THEN Unit ELSE Panicked(r.panic)]

\* What fetch_and_exec_opcode leaves, as [cpu, mmu, outcome]: advanced is
\* the CPU after PC and next-PC moved on, m the memory before the step and
\* r what the fetch or exec_opcode yields.  checks says whether the build
\* has overflow checks, where an overflowing `+` or `*` panics instead of
\* wrapping.
Stepped(advanced, m, r, checks) ==
    LET trapped == r.overflow /\ checks
    IN [cpu |-> IF trapped THEN advanced ELSE r.self,
        mmu |-> IF trapped THEN m ELSE r.mmu,
        outcome |-> IF trapped THEN Panicked("overflow")
                    ELSE IF r.panic = "none" THEN Unit ELSE Panicked(r.panic)]

\* The programs the two emulators are started on: bytes and a word written
\* at the entry point of new_hle and at the word after it.
TwinAddresses == { Q(0, 0, \h8000, \h1000), Q(0, 0, \h8000, \h1004) }

TwinData == { <<\h0C>>, <<\h24>>, <<\h3C, \h03, \h00, \h20>> }

\* The second emulator exists.
Started == history # <<>>

\* The embedder writes the program before the emulators start.
Load(address, data) == ~Started /\ Poke(address, data)

\* The second emulator starts as a copy of the first, in a build with or
\* without overflow checks.
Start(checks) ==
    /\ Running
    /\ ~Started
    /\ history' = <<[cpu |-> cpu, mmu |-> mmu, outcome |-> outcome, ticks |-> 0,
                     checks |-> checks]>>
    /\ last' = Was("start", 0, 0, 0, <<>>)
    /\ UNCHANGED <<cpu, mmu, outcome, calls, fetched>>

\* The emulator which (1 or 2) as a record like the one history holds.
Machine(which) ==
    IF which = 1
    THEN [cpu |-> cpu, mmu |-> mmu, outcome |-> outcome, ticks |-> calls.ticks,
          checks |-> history[1].checks]
    ELSE history[1]

\* Emulator::tick on the emulator which.
TickOf(which) ==
    /\ Started
    /\ \E it \in {Machine(which)} :
         /\ it.outcome.kind # "panic"
         /\ it.ticks < MaxTicks
         /\ \E c \in {it.cpu} :
            \E m \in {it.mmu} :
            \E f \in {fetch_opcode(get_program_counter(c.registers), m)} :
            \E advanced \in {advance(c)} :
            \E r \in {IF f.panic # "none" THEN Panics(c, m, f.panic)
                      ELSE exec_opcode(advanced, f.opcode, m)} :
            \E s \in {Stepped(advanced, m, r, it.checks)} :
              IF which = 1
              THEN /\ cpu' = s.cpu
                   /\ mmu' = s.mmu
                   /\ outcome' = s.outcome
                   /\ calls' = [calls EXCEPT !.ticks = @ + 1]
                   /\ UNCHANGED history
              ELSE /\ history' = <<[cpu |-> s.cpu, mmu |-> s.mmu, outcome |-> s.outcome,
                                    ticks |-> it.ticks + 1, checks |-> it.checks]>>
                   /\ UNCHANGED <<cpu, mmu, outcome, calls>>
    /\ last' = Was("tick", which, 0, 0, <<>>)
    /\ UNCHANGED fetched

NextTwin ==
    \/ \E address \in TwinAddresses, data \in TwinData : Load(address, data)
    \/ \E checks \in BOOLEAN : Start(checks)
    \/ \E which \in {1, 2} : TickOf(which)

SpecTwin == Init /\ [][NextTwin]_vars

(***************************************************************************)
(* The physical map accessed one byte at a time, each access recorded in   *)
(* history.                                                                *)
(***************************************************************************)

\* Calls of read_physical_byte and write_physical_byte in one run.
MaxByteAccesses == 2

\* Physical addresses accessed: 0x10 in RDRAM1; 0x400010 and 0x7FFFFF in
\* RDRAM2; 0x800010 in RESERVED1, the first addresses of RDRAM_REGISTERS,
\* PIF_RAM, CARTRIDGE_DOMAIN_1_ADDRESS_3 and EXTERNAL_SYSAD_DEVICE_BUS;
\* the first addresses of CARTRIDGE_DOMAIN_2_ADDRESS_2 and
\* CARTRIDGE_DOMAIN_1_ADDRESS_2.
ByteAddresses ==
    { Q(0, 0, \h0000, \h0010), Q(0, 0, \h0040, \h0010), Q(0, 0, \h007F, \hFFFF),
      Q(0, 0, \h0080, \h0010), Q(0, 0, \h03F0, \h0000), Q(0, 0, \h1FC0, \h07C0),
      Q(0, 0, \h1FD0, \h0000), Q(0, 0, \h8000, \h0000),
      Q(0, 0, \h0800, \h0000), Q(0, 0, \h1000, \h0000) }

\* Bytes written.
ByteData == {\h12, \hA5}

\* MMU::write_physical_byte(address, data).
WritePhysicalByte(address, data) ==
    /\ Running
    /\ calls.pokes < MaxByteAccesses
    /\ \E w \in {write_physical_byte(mmu, address, data)} :
      Record("write_physical_byte", 0, 0, <<>>, address, <<data>>, "pokes", MaxByteAccesses,
             cpu, w.mmu, Yields(w.panic, Unit))

\* MMU::read_physical_byte(address).
ReadPhysicalByte(address) ==
    /\ Running
    /\ calls.pokes < MaxByteAccesses
    /\ \E r \in {read_physical_byte(mmu, address)} :
      Record("read_physical_byte", 0, 0, <<>>, address, <<>>, "pokes", MaxByteAccesses,
             cpu, mmu, Yields(r.panic, Ok(r.val)))

NextPhysical ==
    \/ \E address \in ByteAddresses, data \in ByteData : WritePhysicalByte(address, data)
    \/ \E address \in ByteAddresses : ReadPhysicalByte(address)

SpecPhysical == Init /\ [][NextPhysical]_vars

(***************************************************************************)
(* The claims.                                                             *)
(***************************************************************************)

\* C1: general-purpose register 0 always reads 0, by number and by the name
\* "zero", whatever was written to it by set_by_number, set_by_name or a
\* handler naming it as destination; a write to a register 1..31 is read
\* back unchanged.
C1_RegisterZero ==
    /\ get_by_number(cpu.registers, 0) = Zero(8)
    /\ get_by_name(cpu.registers, "zero") = Zero(8)
    /\ (last.op = "set_by_number" /\ last.x \in 1..31) =>
         get_by_number(cpu.registers, last.x) = last.imm
    /\ (last.op = "set_by_name" /\ last.x \in 1..31) =>
         get_by_name(cpu.registers, CPU_REGISTER_NAMES[last.x + 1]) = last.imm

\* A non-zero value was written to register 0.
C1_Witness ==
    /\ last.op \in {"set_by_number", "set_by_name"}
    /\ last.x = 0
    /\ last.imm # Zero(8)

\* The arms of exec_opcode that run a jump or branch handler.
ControlTransfers ==
    {"J", "JAL", "JALR", "JR", "BEQ", "BNE", "BGTZ", "BGTZL", "BLEZ", "BLEZL", "BNEL",
     "BGEZ", "BGEZAL", "BGEZALL", "BGEZL", "BLTZ", "BLTZAL", "BLTZALL", "BLTZL"}

\* The arms of exec_opcode that execute an instruction without a transfer
\* of control.
NonBranching(arm) == arm \notin ControlTransfers \cup {"unimplemented", "BREAK", "none"}

Four == Q(0, 0, 0, 4)

\* a + 4 * n, wrapping.
Plus4(a, n) ==
    LET p[i \in 0..n] == IF i = 0 THEN a ELSE WAdd(p[i - 1], Four)
    IN p[n]

\* C2: a step that executes a non-branching instruction fetched at A with
\* next-PC = A+4 on entry leaves PC = A+4 and next-PC = A+8; after n such
\* steps in a row from a state with next-PC = PC+4, next-PC = PC+4 still
\* holds and PC has advanced by 4n.
C2_StepAdvances ==
    /\ \A k \in 1..Len(fetched) :
         (NonBranching(fetched[k].arm) /\ fetched[k].next_in = Plus4(fetched[k].at, 1)) =>
           /\ fetched[k].pc = Plus4(fetched[k].at, 1)
           /\ fetched[k].next = Plus4(fetched[k].at, 2)
    /\ (/\ Len(fetched) > 0
        /\ \A k \in 1..Len(fetched) : NonBranching(fetched[k].arm)
        /\ fetched[1].next_in = Plus4(fetched[1].at, 1)) =>
           /\ get_program_counter(cpu.registers) = Plus4(fetched[1].at, Len(fetched))
           /\ get_next_program_counter(cpu.registers) =
                Plus4(get_program_counter(cpu.registers), 1)

\* Two non-branching steps in a row, the second an ADDIU read from memory.
C2_Witness ==
    /\ Len(fetched) >= 2
    /\ \A k \in 1..Len(fetched) : NonBranching(fetched[k].arm)
    /\ fetched[2].arm = "ADDIU"
    /\ Running

\* C3: when a jump or branch is fetched at A with next-PC = A+4 on entry
\* and leaves the target T in next-PC, the handler leaves PC at A+4, the
\* next fetch is at A+4 and the one after it at T.
C3_DelaySlot ==
    \A k \in 1..Len(fetched) :
      (fetched[k].arm \in ControlTransfers /\ fetched[k].next_in = Plus4(fetched[k].at, 1)) =>
        /\ fetched[k].pc = Plus4(fetched[k].at, 1)
        /\ k + 1 <= Len(fetched) => fetched[k + 1].at = Plus4(fetched[k].at, 1)
        /\ k + 2 <= Len(fetched) => fetched[k + 2].at = fetched[k].next

\* A J at A, its delay slot at A+4, and the fetch at the target, which is
\* not the word after the delay slot.
C3_Witness ==
    /\ Len(fetched) >= 3
    /\ fetched[1].arm = "J"
    /\ fetched[2].at = Plus4(fetched[1].at, 1)
    /\ fetched[3].at = fetched[1].next
    /\ fetched[3].at # Plus4(fetched[1].at, 2)

\* The handlers that signal overflow, and the byte width they work at.
OverflowOps == {"add", "addi", "sub", "dadd", "daddi", "dsub"}

OpWidth(op) == IF op \in {"add", "addi", "sub", "addu", "addiu", "subu"} THEN 4 ELSE 8

\* The operands of the last call as the handler reads them from the CPU it
\* started on: the source register at the width of op, and the second
\* register or the sign-extended immediate.
FirstOperand == Truncate(get_by_number(last.pre.registers, last.y), OpWidth(last.op))

SecondOperand ==
    IF last.imm = <<>>
    THEN Truncate(get_by_number(last.pre.registers, last.z), OpWidth(last.op))
    ELSE SignExtend(last.imm, OpWidth(last.op))

\* The mathematical sum or difference of the operands, on 128 bits, where
\* no operation of at most 64 bits overflows.
ExactResult ==
    IF last.op \in {"sub", "dsub", "subu"}
    THEN WSub(SignExtend(FirstOperand, 16), SignExtend(SecondOperand, 16))
    ELSE WAdd(SignExtend(FirstOperand, 16), SignExtend(SecondOperand, 16))

\* The exact result is a signed value of the width of the operation.
ResultFits == SignExtend(Truncate(ExactResult, OpWidth(last.op)), 16) = ExactResult

\* The exact result wrapped to the width of the operation, as an i64.
WrappedResult == SignExtend(Truncate(ExactResult, OpWidth(last.op)), 8)

C5_UnsignedSignExtended ==
    last.op \in {"addu", "addiu", "subu"} =>
      /\ outcome = Unit
      /\ get_by_number(cpu.registers, last.x) = (IF last.x = 0 THEN Zero(8) ELSE WrappedResult)

\* The product MULT forms, on 64 bits, and the one DMULT forms, on 128.
ExactProduct ==
    LET s == get_by_number(last.pre.registers, last.x)
        t == get_by_number(last.pre.registers, last.y)
    IN IF last.op = "mult"
       THEN WMul(SignExtend(Truncate(s, 4), 8), SignExtend(Truncate(t, 4), 8))
       ELSE WMul(SignExtend(s, 16), SignExtend(t, 16))

\* C6: MULT sets LO to the low 32 bits of the 64-bit product, sign-extended,
\* and HI to its high 32 bits; DMULT sets LO to the low 64 bits and HI to
\* the high 64 bits of the 128-bit product.
C6_FullProduct ==
    /\ last.op = "mult" =>
         /\ cpu.registers.lo = SignExtend(Truncate(ExactProduct, 4), 8)
         /\ cpu.registers.hi = SignExtend(High(ExactProduct, 4), 8)
    /\ last.op = "dmult" =>
         /\ cpu.registers.lo = Truncate(ExactProduct, 8)
         /\ cpu.registers.hi = High(ExactProduct, 8)

\* C7: ANDI, ORI and XORI combine the source register with the 16-bit
\* immediate zero-extended to 64 bits.
C7_ZeroExtendedImmediate ==
    LET s == get_by_number(last.pre.registers, last.y)
        imm == ZeroExtend(last.imm, 8)
        expected == CASE last.op = "andi" -> WAnd(s, imm)
                      [] last.op = "ori"  -> WOr(s, imm)
                      [] last.op = "xori" -> WXor(s, imm)
    IN last.op \in {"andi", "ori", "xori"} =>
         get_by_number(cpu.registers, last.x) = (IF last.x = 0 THEN Zero(8) ELSE expected)

\* C8: J and JAL set next-PC to the 26-bit target shifted left by 2 under
\* the bits at and above bit 28 of the address of the jump.
C8_JumpSegment ==
    last.op \in {"j", "jal"} =>
      get_next_program_counter(cpu.registers) =
        WOr(WAnd(get_program_counter(last.pre.registers), Q(\hFFFF, \hFFFF, \hF000, \h0000)),
            jump_offset(last.imm))

\* C9: after a step that fetches JAL at A with next-PC = A+4 on entry,
\* register 31 holds A+8.
C9_LinkAddress ==
    (/\ Len(fetched) > 0
     /\ fetched[Len(fetched)].arm = "JAL"
     /\ fetched[Len(fetched)].next_in = Plus4(fetched[Len(fetched)].at, 1)) =>
       get_by_number(cpu.registers, 31) = Plus4(fetched[Len(fetched)].at, 2)

\* The condition of a branch on the 64-bit signed values s and t.
BranchCondition(op, s, t) ==
    CASE op \in {"beq", "beql"} -> s = t
      [] op \in {"bne", "bnel"} -> s # t
      [] op \in {"bltz", "bltzl", "bltzal", "bltzall"} -> IsNeg(s)
      [] op \in {"bgez", "bgezl", "bgezal", "bgezall"} -> ~IsNeg(s)
      [] op \in {"blez", "blezl"} -> IsNeg(s) \/ IsZero(s)
      [] op \in {"bgtz", "bgtzl"} -> ~IsNeg(s) /\ ~IsZero(s)

\* C10: a branch whose condition holds adds the offset, sign-extended to 64
\* bits and multiplied by 4, to next-PC; one whose condition does not hold
\* leaves next-PC unchanged.
C10_BranchOffset ==
    LET s == get_by_number(last.pre.registers, last.x)
        t == get_by_number(last.pre.registers, last.y)
        before == get_next_program_counter(last.pre.registers)
        times4 == ShlBits(ShlBits(SignExtend(last.imm, 8), 1), 1)
    IN last.op \in OpsRsRtOffset \cup OpsRsOffset =>
         get_next_program_counter(cpu.registers) =
           (IF BranchCondition(last.op, s, t) THEN WAdd(before, times4) ELSE before)

\* The branches that link.
LinkOps == {"bgezal", "bgezall", "bltzal", "bltzall"}

\* C11: BGEZAL, BGEZALL, BLTZAL and BLTZALL write PC + 8, PC being the
\* program counter the handler reads, to register 31 on every execution,
\* taken or not, and leave every other general-purpose register as it was.
C11_LinkAlways ==
    last.op \in LinkOps =>
      /\ get_by_number(cpu.registers, 31) =
           WAdd(get_program_counter(last.pre.registers), Q(0, 0, 0, 8))
      /\ \A i \in 0..30 :
           get_by_number(cpu.registers, i) = get_by_number(last.pre.registers, i)

\* A linking branch that was not taken and changed register 31.
C11_Witness ==
    /\ last.op \in LinkOps
    /\ ~BranchCondition(last.op, get_by_number(last.pre.registers, last.x), Zero(8))
    /\ get_next_program_counter(cpu.registers) = get_next_program_counter(last.pre.registers)
    /\ get_by_number(cpu.registers, 31) # get_by_number(last.pre.registers, 31)

\* The arms of exec_opcode that run a "likely" branch.
LikelyArms == {"BNEL", "BGEZL", "BGEZALL", "BLTZL", "BLTZALL", "BLEZL", "BGTZL"}

\* The condition of the branch that step k fetched, on the registers the
\* instruction names: rs at bits 25..21 and rt at bits 20..16.
StepCondition(k) ==
    LET regs == fetched[k].before.cpu.registers
        s == get_by_number(regs, Bits25_21(fetched[k].opcode))
        t == get_by_number(regs, Bits20_16(fetched[k].opcode))
        arm == fetched[k].arm
    IN CASE arm = "BNEL" -> s # t
         [] arm \in {"BGEZL", "BGEZALL"} -> ~IsNeg(s)
         [] arm \in {"BLTZL", "BLTZALL"} -> IsNeg(s)
         [] arm = "BLEZL" -> IsNeg(s) \/ IsZero(s)
         [] arm = "BGTZL" -> ~IsNeg(s) /\ ~IsZero(s)

\* Step k changed a general-purpose register, HI, LO or memory.
StepHasEffect(k) ==
    \/ fetched[k].after.cpu.registers.registers # fetched[k].before.cpu.registers.registers
    \/ fetched[k].after.cpu.registers.hi # fetched[k].before.cpu.registers.hi
    \/ fetched[k].after.cpu.registers.lo # fetched[k].before.cpu.registers.lo
    \/ fetched[k].after.mmu # fetched[k].before.mmu

\* C12: when a likely branch fetched at A with next-PC = A+4 on entry has a
\* false condition, the instruction at A+4 is not executed: no step that
\* follows the branch fetches at A+4 and changes registers or memory.
C12_LikelyNullifies ==
    \A k \in 1..(Len(fetched) - 1) :
      (/\ fetched[k].arm \in LikelyArms
       /\ fetched[k].next_in = Plus4(fetched[k].at, 1)
       /\ ~StepCondition(k)) =>
         ~(fetched[k + 1].at = Plus4(fetched[k].at, 1) /\ StepHasEffect(k + 1))

\* The store-conditional handlers.
Conditionals == {"sc", "scd"}

\* C13: SC and SCD called with the load-linked flag clear write 0 to rt and
\* store nothing: the call returns and leaves the MMU as it was.
C13_FailedConditional ==
    \A k \in 1..Len(history) :
      (history[k].op \in Conditionals /\ ~history[k].before.load_link) =>
        /\ history[k].outcome = Unit
        /\ history[k].after.rt = Zero(8)
        /\ history[k].after.mmu = history[k].before.mmu

\* A store conditional ran with the flag clear on a register that was not 0,
\* after an earlier one had stored to memory.
C13_Witness ==
    \E k \in 1..Len(history) :
      /\ history[k].op \in Conditionals
      /\ ~history[k].before.load_link
      /\ history[k].before.rt # Zero(8)
      /\ history[k].before.mmu # MMU_new(File)

\* The n bytes that the physical addresses a, a + 1, ..., a + n - 1 of m hold.
BytesAt(m, a, n) == [i \in 1..n |-> read_physical_byte(m, WAdd(a, Small(i - 1, 8))).val]

\* C14: LLD at an address in RAM returns, leaves in rt the 8 bytes at that
\* address, most significant first, sets the load-linked flag and leaves the
\* translated address in CP0 LLAddr; an SC that follows it stores, so that
\* the LW that follows the SC at the same address loads the word stored.
C14_LinkedLoad ==
    \A k \in 1..Len(history) :
      /\ history[k].op = "lld" =>
           /\ history[k].outcome = Unit
           /\ history[k].after.rt =
                BytesAt(history[k].before.mmu, convert(history[k].address).val, 8)
           /\ history[k].after.load_link
           /\ history[k].after.lladdr = Truncate(convert(history[k].address).val, 4)
      /\ (/\ k + 2 <= Len(history)
          /\ history[k].op = "lld"
          /\ history[k + 1].op = "sc"
          /\ history[k + 2].op = "lw") =>
           history[k + 2].after.rt = SignExtend(Truncate(history[k + 1].before.rt, 4), 8)

\* C15: a store conditional consumes the load-linked flag: after SC or SCD
\* has returned the flag is false, so a store conditional that follows
\* another one, the flag not having been set in between, writes 0 to rt and
\* stores nothing.
C15_FlagConsumed ==
    \A k \in 1..Len(history) :
      /\ (history[k].op \in Conditionals /\ history[k].outcome = Unit) =>
           ~history[k].after.load_link
      /\ (/\ k + 1 <= Len(history)
          /\ history[k].op \in Conditionals
          /\ history[k + 1].op \in Conditionals
          /\ history[k + 1].before.load_link = history[k].after.load_link) =>
           /\ history[k + 1].after.rt = Zero(8)
           /\ history[k + 1].after.mmu = history[k + 1].before.mmu

\* address is 0x80000000 + x or 0xA0000000 + x for an x in [0, 0x1FFFFFFF].
InKernelWindow(address) == High(address, 4) = Zero(4) /\ address[5] \in 128..191

\* The x of such an address: the address without bits 31..29.
WindowOffset(address) == [address EXCEPT ![5] = @ % 32]

\* C16: the windows at 0x80000000 and 0xA0000000 alias one physical space:
\* convert of 0x80000000 + x and of 0xA0000000 + x is x for x in
\* [0, 0x1FFFFFFF], and a byte that write_virtual wrote at one of the two
\* addresses, x being in RAM, is what read_virtual of one byte returns next
\* at either of them.
C16_KernelWindowsAlias ==
    \A k \in 1..Len(history) :
      /\ (history[k].op = "convert" /\ InKernelWindow(history[k].address)) =>
           history[k].outcome = Ok(WindowOffset(history[k].address))
      /\ (/\ k + 1 <= Len(history)
          /\ history[k].op = "write_virtual"
          /\ Len(history[k].data) = 1
          /\ history[k + 1].op = "read_virtual"
          /\ Len(history[k + 1].data) = 1
          /\ InKernelWindow(history[k].address)
          /\ InKernelWindow(history[k + 1].address)
          /\ WindowOffset(history[k].address) = WindowOffset(history[k + 1].address)
          /\ ULt(WindowOffset(history[k].address), RDRAM_LEN)) =>
           history[k + 1].outcome = Ok(history[k].data)

\* A non-zero byte written at one of the two addresses of a RAM cell was
\* read at the other.
C16_Witness ==
    \E k \in 1..(Len(history) - 1) :
      /\ history[k].op = "write_virtual"
      /\ Len(history[k].data) = 1
      /\ history[k].data # Zero(1)
      /\ history[k + 1].op = "read_virtual"
      /\ Len(history[k + 1].data) = 1
      /\ InKernelWindow(history[k].address)
      /\ InKernelWindow(history[k + 1].address)
      /\ history[k].address # history[k + 1].address
      /\ WindowOffset(history[k].address) = WindowOffset(history[k + 1].address)
      /\ ULt(WindowOffset(history[k].address), RDRAM_LEN)
      /\ history[k + 1].outcome.kind = "Ok"

\* The calls that translate a virtual address.
Translating == {"convert", "read_virtual", "write_virtual"}

\* C17: an access to a virtual address that lies in none of the five
\* segments does not abort: it returns a TranslationFault and leaves the
\* registers and the memory as they were.
C17_TranslationFault ==
    \A k \in 1..Len(history) :
      (history[k].op \in Translating /\ RangeOf(Segments, history[k].address) = "none") =>
        /\ history[k].outcome = Err("TranslationFault")
        /\ history[k].after = history[k].before

\* The physical addresses 0x08 .. 0x1F, around the ones accessed.
Nearby == { Q(0, 0, 0, c) : c \in 8..31 }

\* address is one of a, a + 1, ..., a + n - 1.
Within(address, a, n) == \E i \in 0..(n - 1) : address = WAdd(a, Small(i, 8))

\* C18: write_physical(a, b) stores b[i] at a + i and read_physical(a, n)
\* returns the bytes at a, a + 1, ..., a + n - 1 in that order, so that a
\* read of n bytes returns what the write of n bytes at the same address
\* before it stored; the bytes outside a .. a + n - 1 are left as they were.
C18_ConsecutiveBytes ==
    \A k \in 1..Len(history) :
      /\ history[k].op = "write_physical" =>
           /\ BytesAt(history[k].after.mmu, history[k].address, Len(history[k].data)) =
                history[k].data
           /\ \A c \in Nearby :
                ~Within(c, history[k].address, Len(history[k].data)) =>
                  BytesAt(history[k].after.mmu, c, 1) = BytesAt(history[k].before.mmu, c, 1)
      /\ history[k].op = "read_physical" =>
           history[k].outcome =
             Ok(BytesAt(history[k].before.mmu, history[k].address, Len(history[k].data)))
      /\ (/\ k + 1 <= Len(history)
          /\ history[k].op = "write_physical"
          /\ history[k + 1].op = "read_physical"
          /\ history[k + 1].address = history[k].address
          /\ Len(history[k + 1].data) = Len(history[k].data)) =>
           history[k + 1].outcome = Ok(history[k].data)

\* Calls k .. k + 3 are SWL, SWR, LWL, LWR that all returned, the stores at
\* the addresses of the loads, the right-hand ones at the address of the
\* left-hand ones or 3 above it.
UnalignedRoundTrip(k) ==
    /\ k + 3 <= Len(history)
    /\ history[k].op = "swl"
    /\ history[k + 1].op = "swr"
    /\ history[k + 2].op = "lwl"
    /\ history[k + 3].op = "lwr"
    /\ \A i \in k..(k + 3) : history[i].outcome = Unit
    /\ history[k + 2].address = history[k].address
    /\ history[k + 3].address = history[k + 1].address
    /\ history[k + 1].address \in {history[k].address, WAdd(history[k].address, Q(0, 0, 0, 3))}

\* C19: SWL and SWR of a register at an address of any alignment in RAM,
\* then LWL and LWR at that address, leave in the destination register the
\* low word of the register stored, sign-extended, whatever the register
\* and the memory held before.
C19_UnalignedRoundTrip ==
    \A k \in 1..Len(history) :
      UnalignedRoundTrip(k) =>
        history[k + 3].after.rt = SignExtend(Truncate(history[k].before.rt, 4), 8)

\* The divisor that the division op takes from register rt of r: the low
\* word for div and divu, the register for ddiv and ddivu.
DivisorOf(op, r, rt) ==
    IF op \in {"div", "divu"} THEN Truncate(get_by_number(r, rt), 4) ELSE get_by_number(r, rt)

\* C20: DIV, DIVU, DDIV and DDIVU with a zero divisor, whatever the
\* dividend, return without a panic and without a fault, LO and HI holding
\* 64-bit values.
C20_DivideByZero ==
    (last.op \in OpsDivide /\ IsZero(DivisorOf(last.op, last.pre.registers, last.y))) =>
      /\ outcome = Unit
      /\ Len(cpu.registers.lo) = 8
      /\ Len(cpu.registers.hi) = 8

\* The signed divisions.
SignedDivisions == {"div", "ddiv"}

\* The value of register index before the last call, at the width op
\* works on: the low word for div, the register for ddiv.
DivOperand(op, index) ==
    LET v == get_by_number(last.pre.registers, index)
    IN IF op = "div" THEN Truncate(v, 4) ELSE v

\* a is the most negative value of its width and b is -1.
MinByMinusOne(a, b) ==
    /\ a = [i \in 1..Len(a) |-> IF i = 1 THEN 128 ELSE 0]
    /\ b = [i \in 1..Len(b) |-> 255]

\* C21: DIV and DDIV with a divisor t that is not 0 and a dividend s of
\* either sign, MIN / -1 aside, leave in LO the quotient and in HI the
\* remainder of one division: s = LO * t + HI and |HI| < |t|; DIV works on
\* the low words and leaves both results sign-extended to 64 bits.
C21_QuotientAndRemainder ==
    (/\ last.op \in SignedDivisions
     /\ ~IsZero(DivOperand(last.op, last.y))
     /\ ~MinByMinusOne(DivOperand(last.op, last.x), DivOperand(last.op, last.y))) =>
       LET k == IF last.op = "div" THEN 4 ELSE 8
           s == DivOperand(last.op, last.x)
           t == DivOperand(last.op, last.y)
           lo == Truncate(cpu.registers.lo, k)
           hi == Truncate(cpu.registers.hi, k)
       IN /\ outcome = Unit
          /\ cpu.registers.lo = SignExtend(lo, 8)
          /\ cpu.registers.hi = SignExtend(hi, 8)
          /\ s = WAdd(WMul(lo, t), hi)
          /\ ULt(Magnitude(hi), Magnitude(t))

\* The last operation was exec_opcode on a word of arms.
Executed(arms) == last.op = "exec_opcode" /\ Arm(last.imm) \in arms

\* C22: exec_opcode on a word whose primary opcode or secondary field no
\* arm recognizes returns with a fault as its outcome instead of ending the
\* process, and leaves the general-purpose registers, HI, LO, CP0 and the
\* memory as they were (no word executed here stores, so the memory before
\* the call is the memory MMU::new made).
C22_IllegalInstruction ==
    Executed({"unimplemented"}) =>
        /\ outcome.kind # "panic"
        /\ cpu.registers.registers = last.pre.registers.registers
        /\ cpu.registers.hi = last.pre.registers.hi
        /\ cpu.registers.lo = last.pre.registers.lo
        /\ cpu.cp0 = last.pre.cp0
        /\ mmu = MMU_new(File)

\* The CP0 registers the claim gives 32 bits.
Narrow == {0, 1, 5, 6, 9, 11, 12, 13, 15, 16, 17, 18, 19, 26, 27, 28, 29}

\* C24: a move to or from CP0 register rd, any of 0..31, finds is_32bits(rd)
\* true exactly on the 32-bit registers and false on every other (7 and 31
\* among them) and completes through the accessor of that width: MTC0 and
\* DMTC0 leave in CP0 the register, truncated to 32 bits where rd has 32,
\* and MFC0 and DMFC0 read it back unchanged, sign-extended where rd has 32.
C24_Cp0Widths ==
    Executed({"MTC0", "DMTC0", "MFC0", "DMFC0"}) =>
        LET p == params_rt_rd(last.imm)
            w == is_32bits(p.rd)
            v == get_by_number(last.pre.registers, p.rt)
            held == last.pre.cp0[p.rd]
        IN /\ w.panic = "none"
           /\ w.val = (p.rd \in Narrow)
           /\ outcome = Unit
           /\ Arm(last.imm) \in {"MTC0", "DMTC0"} =>
                cpu.cp0[p.rd] = IF p.rd \in Narrow THEN Truncate(v, 4) ELSE v
           /\ Arm(last.imm) \in {"MFC0", "DMFC0"} =>
                get_by_number(cpu.registers, p.rt) = SignExtend(held, 8)

\* The arms that move to or from CP0, whose unreachable!() is that of the
\* CP0 register file.
Cop0Moves == {"MTC0", "DMTC0", "MFC0", "DMFC0"}

\* C27: exec_opcode passes get_by_number and set_by_number only indices in
\* 0..31, so their unreachable!() for an index above 31 is never met; JALR
\* and JR are among the arms, their rd and rs being the fields at bits
\* 15..11 and 25..21.
C27_RegisterIndices ==
    last.op = "exec_opcode" =>
        /\ Arm(last.imm) \notin Cop0Moves => outcome # Panicked("unreachable")
        /\ Arm(last.imm) = "JALR" =>
             /\ jalr_rd(last.imm) = Bits15_11(last.imm)
             /\ jalr_rs(last.imm) = Bits25_21(last.imm)
        /\ Arm(last.imm) = "JR" => jalr_rs(last.imm) = Bits25_21(last.imm)

\* C29: SLTU through exec_opcode writes to rd 1 if rs is below rt as
\* unsigned 64-bit values and 0 if not, SLT the same on signed values; the
\* two differ exactly when the sign bits of rs and rt differ.
C29_UnsignedCompare ==
    Executed({"SLT", "SLTU"}) =>
        LET p == params_rd_rs_rt(last.imm)
            s == get_by_number(last.pre.registers, p.rs)
            t == get_by_number(last.pre.registers, p.rt)
            below == IF Arm(last.imm) = "SLTU" THEN ULt(s, t) ELSE SLt(s, t)
        IN /\ outcome = Unit
           /\ get_by_number(cpu.registers, p.rd) = BoolWord(below)
           /\ (ULt(s, t) # SLt(s, t)) <=> (IsNeg(s) # IsNeg(t))

\* The arms that take (rt, rs, immediate) and write rt.
ImmediateArms == {"ADDI", "ADDIU", "ANDI", "ORI"}

\* C30: on every word the decoders agree on rt: params_rt_rs_immediate,
\* params_rs_rt_offset and params_rs_rt return as rt what params_rt_immediate,
\* params_rt_offset_base and params_rd_rs_rt return (bits 20..16), and rs
\* is bits 25..21; so ADDI, ADDIU, ANDI and ORI through exec_opcode write
\* no register but the one LUI or a load writes for the same word.
\* params_rs_rt_offset and params_rs_rt return what they compute as rt in
\* the first place and as rs in the second, which their callers bind to rs
\* and rt.
C30_DecodersAgree ==
    last.op = "exec_opcode" =>
        LET w == last.imm
            rt == params_rt_immediate(w).rt
        IN /\ params_rt_offset_base(w).rt = rt
           /\ params_rd_rs_rt(w).rt = rt
           /\ params_rt_rs_immediate(w).rt = rt
           /\ params_rs_rt_offset(w).rs = rt
           /\ params_rs_rt(w).rs = rt
           /\ params_rt_rs_immediate(w).rs = Bits25_21(w)
           /\ params_rs_rt_offset(w).rt = Bits25_21(w)
           /\ params_rs_rt(w).rt = Bits25_21(w)
           /\ Arm(w) \in ImmediateArms =>
                \A i \in 0..31 : i # rt =>
                    get_by_number(cpu.registers, i) = get_by_number(last.pre.registers, i)

\* C26: the word a step fetches is the big-endian value of the four bytes
\* at PC: its bytes, most significant first, are the bytes that memory
\* holds at PC, PC + 1, PC + 2, PC + 3, and they are the four bytes that
\* read_virtual returned, the last one in bits 7..0.
C26_BigEndianFetch ==
    \A k \in 1..Len(fetched) :
      fetched[k].arm # "none" =>
        LET at == convert(fetched[k].at).val
            r == read_virtual(fetched[k].before.mmu, fetched[k].at, 4)
        IN /\ fetched[k].opcode = BytesAt(fetched[k].before.mmu, at, 4)
           /\ fetched[k].opcode = r.data

Backed == {"RDRAM1", "RDRAM2", "CARTRIDGE_DOMAIN_2_ADDRESS_2", "CARTRIDGE_DOMAIN_1_ADDRESS_2"}

\* address lies in a window that is not backed.
InStub(address) == RangeOf(Windows, address) \notin Backed \cup {"none"}

\* C25: a write to a window other than RAM and the cartridge windows is
\* discarded and a read there returns a fixed byte: whatever was written
\* before, read_physical_byte at an address of such a window returns what it
\* returns in a fresh MMU, and a write there changes the byte read at no
\* address.
C25_StubWindows ==
    /\ \A a \in ByteAddresses :
         InStub(a) => read_physical_byte(mmu, a) = read_physical_byte(MMU_new(File), a)
    /\ \A k \in 1..Len(history) :
         /\ (history[k].op = "write_physical_byte" /\ InStub(history[k].address)) =>
              /\ history[k].outcome = Unit
              /\ \A b \in ByteAddresses :
                   read_physical_byte(history[k].after.mmu, b) =
                     read_physical_byte(history[k].before.mmu, b)
         /\ (history[k].op = "read_physical_byte" /\ InStub(history[k].address)) =>
              history[k].outcome =
                Ok(read_physical_byte(MMU_new(File), history[k].address).val)

\* A byte was written to a stub window and the same address read after it.
C25_Witness ==
    /\ Len(history) = 2
    /\ history[1].op = "write_physical_byte"
    /\ history[2].op = "read_physical_byte"
    /\ InStub(history[1].address)
    /\ history[2].address = history[1].address
    /\ history[2].outcome # Ok(history[1].data[1])

\* address lies in one of the two windows of RAM.
InRam(address) == RangeOf(Windows, address) \in {"RDRAM1", "RDRAM2"}

\* Two addresses of RAM that name the same cell of the 4 MiB array if the
\* second window mirrors the first.
Alias(a, b) == InRam(a) /\ InRam(b) /\ (a = b \/ WSub(a, RDRAM_LEN) = b \/ WSub(b, RDRAM_LEN) = a)

\* C28: both windows of RAM, 0x00000000 ..= 0x007FFFFF, are backed by the
\* 4 MiB array: write_physical_byte there returns, without an index outside
\* the array, and read_physical_byte at the same address then returns the
\* byte written; the write changes the byte read at no address that does
\* not alias the one written.
C28_RamWindows ==
    \A k \in 1..Len(history) :
      /\ (history[k].op = "write_physical_byte" /\ InRam(history[k].address)) =>
           /\ history[k].outcome = Unit
           /\ read_physical_byte(history[k].after.mmu, history[k].address) =
                [panic |-> "none", val |-> history[k].data[1]]
           /\ \A b \in ByteAddresses :
                ~Alias(b, history[k].address) =>
                  read_physical_byte(history[k].after.mmu, b) =
                    read_physical_byte(history[k].before.mmu, b)
      /\ (history[k].op = "read_physical_byte" /\ InRam(history[k].address)) =>
           history[k].outcome.kind = "Ok"

====
